---- MODULE Spec2Model ----
(***************************************************************************)
(* gool: decode / fetch cutlist / cut pipeline for OTR recordings.         *)
(*                                                                         *)
(* Four specifications over one set of variables:                          *)
(*   Spec     videoList.process and the goroutines it starts (cut,         *)
(*            fetchCutlist, decode), one step per blocking point           *)
(*   SpecHdr  the tail of video.fetchCutlistHeaders: sort.Sort and the     *)
(*            construction of the id list                                  *)
(*   SpecDet  fetchCutlistDetails, one step per candidate and per cut      *)
(*            section read                                                 *)
(*   SpecRead videoList.read with video.updateFromFile, one step per file  *)
(* Variables a specification does not use stay at their idle value.  A nil *)
(* pointer is the empty sequence, a pointer to x is <<x>>.                 *)
(***************************************************************************)
EXTENDS Integers, Sequences, FiniteSets, TLC

(***************************************************************************)
(* Bounds of the model.                                                    *)
(***************************************************************************)
NumVideos == 2      \* videos in the list handed to process / keys seen by read
MaxHdrs == 7        \* cutlist headers in one server response
MaxIds == 2         \* candidate ids handed to fetchCutlistDetails
MaxCuts == 3        \* largest noofcuts a detail document declares
MaxScan == 3        \* files visited by one read
MaxToks == 11       \* tokens the XML decoder yields for one header response
MaxDepth == 2       \* nesting depth of the elements of a header response
NumCallers == 3     \* goroutines that call getBar
MaxBarCalls == 4    \* calls of getBar
MaxSegs == 2        \* segments of the cutlist handed to callMKVmerge
MaxSecs == 3700     \* largest whole number of seconds handed to timeStr
MaxTicks == 22      \* ticks one autoIncr goroutine takes
MaxWords == 6       \* words of the output of otrdecoder

Nil == "nil"

(***************************************************************************)
(* video.go: status and result constants.                                  *)
(***************************************************************************)
vidStatusEnc == "ENC"
vidStatusDec == "DEC"
vidStatusCut == "CUT"
vidResultOK == "ERFOLG"
vidResultErr == "FEHLER"
vidResultNone == ""

Statuses == {vidStatusEnc, vidStatusDec, vidStatusCut}

\* Raw < Decoded < Cut
StatusRank(s) == CASE s = vidStatusEnc -> 0 [] s = vidStatusDec -> 1 [] s = vidStatusCut -> 2

Keys == 1..NumVideos

(***************************************************************************)
(* File paths.  A path is dir + "/" + key + mid + ext:                     *)
(*   K.avi.otrkey  = [mid |-> ".avi", ext |-> ".otrkey"]   (encoded)       *)
(*   K.avi         = [mid |-> "",     ext |-> ".avi"]      (decoded)       *)
(*   K.cut.avi     = [mid |-> ".cut", ext |-> ".avi"]      (cut)           *)
(* key = 0 is a file name that does not match the OTR pattern.             *)
(* Directories: the working dir ("wrk", also any place named on the        *)
(* command line) and its sub directories Encoded, Decoded, Cut.            *)
(***************************************************************************)
Dirs == {"wrk", "enc", "dec", "cut"}

Path(d, k, m, e) == [dir |-> d, key |-> k, mid |-> m, ext |-> e]

\* the file name a video of status s has when it is found by read
FileOf(d, k, s) ==
    CASE s = vidStatusEnc -> Path(d, k, ".avi", ".otrkey")
      [] s = vidStatusDec -> Path(d, k, "", ".avi")
      [] s = vidStatusCut -> Path(d, k, ".cut", ".avi")

\* sub directory of the working dir that holds videos of status s
DirOf(s) ==
    CASE s = vidStatusEnc -> "enc"
      [] s = vidStatusDec -> "dec"
      [] s = vidStatusCut -> "cut"

\* path.Ext
PathExt(p) == p.ext

VARIABLES
    vl,         \* videoList: key -> video [key, status, res, filePath, cl]
    vl0,        \* the list as read left it (history)
    prc,        \* position of process: "begin", "loop", "branch", "wait", "close", "stop", "returned",
                \* "printed"
    todo,       \* keys the range loop of process has not visited yet
    cur,        \* key of the loop iteration in progress
    started,    \* progress container created by start()
    stopped,    \* progress container stopped by stop()
    rs,         \* channels created by process, in order of creation
    r,          \* key -> content of the video's channel
    closed,     \* key -> the channel was closed
    wg,         \* WaitGroup counter
    pcCut,      \* key -> position of the cut goroutine
    pcFetch,    \* key -> position of the fetchCutlist goroutine
    pcDecode,   \* key -> position of the decode goroutine
    r0, r1,     \* key -> the two items cut received
    atJoin,     \* key -> status and path when cut received its second item (history)
    cutPre,     \* key -> calls of preProcessing made by cut (history)
    mkvCalls,   \* key -> invocations of mkvmerge
    otrCalls,   \* key -> invocations of otrdecoder
    fs,         \* the video files that exist
    extFail,    \* key -> a tool failed on a file that exists, or os.Rename or
                \* os.Remove failed (history)
    incrCL,     \* key -> position of the autoIncr goroutine of fetchCutlist:
                \* "none", "select", "final", "done"
    incrCut     \* key -> position of the autoIncr goroutine of callMKVmerge

pvars == <<vl, vl0, prc, todo, cur, started, stopped, rs, r, closed, wg,
           pcCut, pcFetch, pcDecode, r0, r1, atJoin, cutPre, mkvCalls, otrCalls,
           fs, extFail, incrCL, incrCut>>

VARIABLES
    clhs,       \* header list of fetchCutlistHeaders
    clhs0,      \* the header list in response order (history)
    ids,        \* id list returned by fetchCutlistHeaders
    sortImpl,   \* which sort.Sort the binary was built with
    hpc         \* position in fetchCutlistHeaders: "sort", "ret"

hvars == <<clhs, clhs0, ids, sortImpl, hpc>>

VARIABLES
    dpc,        \* position in fetchCutlistDetails: "for", "cuts", "after", "ret", "done"
    idx,        \* position in ids of the candidate of the current loop iteration
    cl,         \* the cutlist under construction
    clRetrieved,
    numCuts,    \* declared number of cuts of the candidate
    cutI,       \* i, the index of the cut section read next
    result,     \* the cutlist returned
    fetched,    \* ids requested from the server, in order (history)
    doc,        \* the general part of the candidate's document (history)
    raws,       \* the cut sections of the candidate read so far (history)
    unreadNeither, \* a declared cut section that was not read has neither pair (history)
    tried       \* candidates whose iteration ended, with the number of segments
                \* kept and the cutlist as it was then (history)

dvars == <<dpc, idx, cl, clRetrieved, numCuts, cutI, result, fetched, doc, raws,
           unreadNeither, tried>>

VARIABLES
    rpc,        \* position in read and the command: "patterns", "files", "done",
                \* then "exit" or "next"
    doCleanUp,  \* cfg.doCleanUp
    cmd,        \* the sub command that runs: "list" or "process"
    seen,       \* the files visited so far (history)
    nScan,      \* number of visits so far (history)
    removed,    \* the files removed by the clean up (history)
    readErr,    \* err of read: Nil, "glob" (pattern not interpreted), "noOTR"
    readRet,    \* the error read returned
    lastFile,   \* the file visited last (history)
    rmFailed    \* an os.Remove of the clean up failed (history)

rvars == <<rpc, doCleanUp, cmd, seen, nScan, removed, readErr, readRet, lastFile, rmFailed>>

VARIABLES
    tpc,        \* position in the head of fetchCutlistHeaders: "get", "read",
                \* "token", then "eof", "ret" or "panic"
    open,       \* the elements the XML decoder has open, innermost last
    nTok,       \* number of tokens the decoder has yielded
    el,         \* name of the relevant element being read, "" if none
    clRelVals,  \* the value map: <<>> if not allocated, <<m>> otherwise
    clh,        \* the header struct filled at the end of an entry
    tfail       \* what failed: Nil, "get", "read", "token" (history)

tvars == <<tpc, open, nTok, el, clRelVals, clh, tfail>>

VARIABLES
    container,  \* the progress container p: <<>> before start, <<"p">> after
    pbs,        \* v.pbs: video -> action -> <<>> (no entry) or <<bar>>
    prgLock,    \* the goroutine that holds prgLock, 0 if none
    gpc,        \* position of each goroutine in getBar
    garg,       \* video and action of the call of each goroutine
    gbar,       \* the local bar of each goroutine: <<>> or <<bar>>
    nBars,      \* number of bars the container has added
    nCalls,     \* number of calls of getBar
    created,    \* video -> action -> the bars added for it, in order (history)
    returned    \* video -> action -> what was returned: <<goroutine, bar>> (history)

bvars == <<container, pbs, prgLock, gpc, garg, gbar, nBars, nCalls, created, returned>>

VARIABLES
    spc,        \* position in the head of callMKVmerge: "split", "loop", "done"
    scl,        \* v.cl: <<>> or <<cutlist>>
    splitStr,   \* the split string: its prefix and its parts
    segI,       \* the loop variable i of the loop over the segments
    tArg,       \* the argument of a call of timeStr
    tRes        \* what that call returned: <<>> before the call

svars == <<spc, scl, splitStr, segI, tArg, tRes>>

VARIABLES
    clamps,     \* whether the bar keeps its value at its total of 100
    pAct,       \* the action of the bar
    ppc,        \* position of the stage that sets the bar
    ipc,        \* position of the autoIncr goroutine of the stage
    barCur,     \* bar.Current()
    nTicks,     \* ticks of the ticker that autoIncr has taken
    phase,      \* prg / 100 in callOTRDecoder
    prgSet,     \* prgSet in callOTRDecoder
    nWords,     \* words of the output of otrdecoder read
    setVals,    \* the values setPrgBar was called with (history)
    lastSet     \* the value of the last call of setPrgBar: <<>> if none

qvars == <<clamps, pAct, ppc, ipc, barCur, nTicks, phase, prgSet, nWords, setVals, lastSet>>

xvars == <<tvars, bvars, svars, qvars>>

vars == <<pvars, hvars, dvars, rvars, xvars>>

\* no item received yet
NoRes == [key |-> 0, err |-> FALSE, src |-> "none"]

\* a step of process and its goroutines leaves the other variables alone
OnlyPrc == UNCHANGED <<hvars, dvars, rvars, xvars>>

(***************************************************************************)
(* Idle values of the variables of each specification.                     *)
(***************************************************************************)
PrcIdle ==
    /\ vl = <<>> /\ vl0 = <<>>
    /\ prc = "idle" /\ todo = {} /\ cur = 0
    /\ started = FALSE /\ stopped = FALSE
    /\ rs = <<>>
    /\ r = [k \in Keys |-> <<>>]
    /\ closed = [k \in Keys |-> FALSE]
    /\ wg = 0
    /\ pcCut = [k \in Keys |-> "none"]
    /\ pcFetch = [k \in Keys |-> "none"]
    /\ pcDecode = [k \in Keys |-> "none"]
    /\ r0 = [k \in Keys |-> NoRes]
    /\ r1 = [k \in Keys |-> NoRes]
    /\ atJoin = [k \in Keys |-> <<>>]
    /\ cutPre = [k \in Keys |-> 0]
    /\ mkvCalls = [k \in Keys |-> 0]
    /\ otrCalls = [k \in Keys |-> 0]
    /\ fs = {}
    /\ extFail = [k \in Keys |-> FALSE]
    /\ incrCL = [k \in Keys |-> "none"]
    /\ incrCut = [k \in Keys |-> "none"]

HdrIdle ==
    /\ clhs = <<>> /\ clhs0 = <<>> /\ ids = <<>>
    /\ sortImpl = Nil /\ hpc = "idle"

\* the general part of a document before any was fetched
NoDoc == [state |-> "none", ratio |-> Nil, fps |-> Nil, app |-> Nil, noofcuts |-> Nil]

DetIdle ==
    /\ dpc = "idle" /\ idx = 0 /\ cl = <<>> /\ clRetrieved = FALSE
    /\ numCuts = 0 /\ cutI = 0 /\ result = <<>> /\ fetched = <<>>
    /\ doc = NoDoc /\ raws = <<>> /\ unreadNeither = FALSE /\ tried = <<>>

ReadIdle ==
    /\ rpc = "idle" /\ seen = {} /\ nScan = 0
    /\ removed = {} /\ readErr = Nil /\ readRet = Nil
    /\ lastFile = <<>> /\ rmFailed = FALSE

\* fetchCutlistHeaders has not been called
TokIdle ==
    /\ tpc = "idle" /\ open = <<>> /\ nTok = 0 /\ el = ""
    /\ clRelVals = <<>> /\ clh = [id |-> "", score |-> 0] /\ tfail = Nil

\* the actions a progress bar can belong to
prgActDec == 0
prgActCL == 1
prgActCut == 2
Acts == {prgActDec, prgActCL, prgActCut}

Callers == 1..NumCallers

\* no goroutine is in getBar and no bar has been added
NoBars ==
    /\ pbs = [k \in Keys |-> [a \in Acts |-> <<>>]]
    /\ prgLock = 0
    /\ gpc = [g \in Callers |-> "idle"]
    /\ garg = [g \in Callers |-> <<0, 0>>]
    /\ gbar = [g \in Callers |-> <<>>]
    /\ nBars = 0 /\ nCalls = 0
    /\ created = [k \in Keys |-> [a \in Acts |-> <<>>]]
    /\ returned = [k \in Keys |-> [a \in Acts |-> {}]]

\* start has not been called: there is no progress container
BarIdle == container = <<>> /\ NoBars

\* callMKVmerge and timeStr have not been called
SplitIdle ==
    /\ spc = "idle" /\ scl = <<>> /\ splitStr = [mode |-> "", parts |-> <<>>]
    /\ segI = 0 /\ tArg = 0 /\ tRes = <<>>

\* no stage sets a progress bar
PrgIdle ==
    /\ clamps = FALSE /\ pAct = 0 /\ ppc = "idle" /\ ipc = "none"
    /\ barCur = 0 /\ nTicks = 0 /\ phase = 0 /\ prgSet = 0 /\ nWords = 0
    /\ setVals = {} /\ lastSet = <<>>

XIdle == TokIdle /\ BarIdle /\ SplitIdle /\ PrgIdle

(***************************************************************************)
(* video.go                                                                *)
(***************************************************************************)
Video(k, s, p) == [key |-> k, status |-> s, res |-> vidResultNone, filePath |-> p, cl |-> <<>>]

\* preProcessing: moves the file into the sub directory of its status.
\* renameOk is the outcome of os.Rename, which is called only when the file
\* is not yet there; the path is adjusted whether or not the move worked.
preProcessing(v, renameOk) ==
    LET dstPath == [v.filePath EXCEPT !.dir = DirOf(v.status)]
    IN  IF v.filePath # dstPath
        THEN [v |-> [v EXCEPT !.filePath = dstPath], err |-> ~renameOk]
        ELSE [v |-> v, err |-> FALSE]

\* a postProcessing that takes a decoded video for cut as well
postProcessingSkip(v, vErr) ==
    IF vErr
    THEN [v EXCEPT !.res = vidResultErr]
    ELSE IF v.status \in {vidStatusEnc, vidStatusDec}
         THEN [v EXCEPT !.res = vidResultOK,
                        !.status = vidStatusCut,
                        !.filePath = Path("cut", v.key, "", PathExt(v.filePath))]
         ELSE [v EXCEPT !.res = vidResultOK]

\* postProcessing: takes the result of decoding or cutting (vErr: the tool
\* returned an error) and adjusts result, status and path of the video.
postProcessing(v, vErr) ==
    IF vErr
    THEN [v EXCEPT !.res = vidResultErr]
    ELSE IF v.status = vidStatusEnc
         THEN [v EXCEPT !.res = vidResultOK,
                        !.status = vidStatusDec,
                        !.filePath = Path("dec", v.key, "", PathExt(v.filePath))]
         ELSE IF v.status = vidStatusDec
              THEN [v EXCEPT !.res = vidResultOK,
                             !.status = vidStatusCut,
                             !.filePath = Path("cut", v.key, "", PathExt(v.filePath))]
              ELSE [v EXCEPT !.res = vidResultOK]

\* the files after preProcessing: os.Rename moves the file if it works
preMoves(v, renameOk, files) ==
    LET dstPath == [v.filePath EXCEPT !.dir = DirOf(v.status)]
    IN  IF v.filePath # dstPath /\ renameOk
        THEN (files \ {v.filePath}) \cup {dstPath}
        ELSE files

\* os.Rename can work only if the file is there
RenameOutcomes(v) == IF v.filePath \in fs THEN BOOLEAN ELSE {FALSE}

\* the files postProcessing removes: the old file, if clean up is asked for
\* and os.Remove works
postRemoves(v, vErr, removeOk) ==
    IF ~vErr /\ doCleanUp /\ removeOk THEN {v.filePath} ELSE {}

\* os.Remove can work only if the file is there
RemoveOutcomes(v) == IF v.filePath \in fs THEN BOOLEAN ELSE {FALSE}

\* a tool returns an error if its input file is not there, and can return
\* one otherwise
ToolErrors(v) == IF v.filePath \in fs THEN BOOLEAN ELSE {TRUE}

\* otrdecoder -i filePath -o decDirPath writes the file named like the input
\* without .otrkey into the Decoded directory
DecodedFile(p) == Path("dec", p.key, "", p.mid)

\* mkvmerge -o outFilePath: cutDirPath/key.cut.mkv
CutFile(v) == Path("cut", v.key, ".cut", ".mkv")

(***************************************************************************)
(* Channels of res items.  err is TRUE when the item carries an error;     *)
(* src names the sender and is history only.                               *)
(***************************************************************************)
ChanCap == 2

Res(k, e, s) == [key |-> k, err |-> e, src |-> s]

\* the channel of video k was made by process
ChanMade(k) == \E n \in 1..Len(rs) : rs[n] = k

\* r <- m : possible when the buffer has room
CanSend(k) == ChanMade(k) /\ ~closed[k] /\ Len(r[k]) < ChanCap

\* <-r : possible when an item is buffered or the channel is closed
CanRecv(k) == ChanMade(k) /\ (Len(r[k]) > 0 \/ closed[k])

Recvd(k) == IF Len(r[k]) > 0 THEN Head(r[k]) ELSE Res(0, FALSE, "closed")

AfterRecv(k) == IF Len(r[k]) > 0 THEN Tail(r[k]) ELSE r[k]

(***************************************************************************)
(* cutlists a video can get attached in the pipeline                       *)
(***************************************************************************)
Seg(ts, td, fst, fd) == [timeStart |-> ts, timeDur |-> td, frameStart |-> fst, frameDur |-> fd]

Cutlist(id, segs) ==
    [id |-> id, app |-> "", ratio |-> "", fps |-> 0,
     timeBased |-> FALSE, frameBased |-> FALSE, segs |-> segs]

FetchedCutlists ==
    {[Cutlist(1, <<Seg(0, 7, 0, 7)>>) EXCEPT !.timeBased = TRUE, !.frameBased = TRUE]}

(***************************************************************************)
(* videolist.go: process                                                   *)
(***************************************************************************)
\* variant of AlreadyCut: the loop does not skip videos that are already cut
AlreadyCutNever(v) == FALSE

\* line 147: if video is already cut: nothing to do
AlreadyCut(v) == v.status = vidStatusCut

\* lines 110-142: count the videos to process, return if there are none,
\* otherwise start progress tracking
PrcBegin ==
    /\ prc = "begin"
    /\ IF \A k \in DOMAIN vl : vl[k].status = vidStatusCut
       THEN /\ prc' = "returned"
            /\ UNCHANGED <<todo, started>>
       ELSE /\ prc' = "loop"
            /\ todo' = DOMAIN vl
            /\ started' = TRUE
    /\ UNCHANGED <<vl, vl0, cur, stopped, rs, r, closed, wg, pcCut, pcFetch,
                   pcDecode, r0, r1, atJoin, cutPre, mkvCalls, otrCalls, fs, extFail, incrCL, incrCut>>
    /\ OnlyPrc

\* a process that handles a video only when the ones before it are through
PrcSpawnSerial(k) ==
    /\ prc = "loop"
    /\ wg = 0
    /\ k \in todo
    /\ todo' = todo \ {k}
    /\ IF AlreadyCut(vl[k])
       THEN UNCHANGED <<prc, cur, rs, r, wg, pcCut, pcFetch>>
       ELSE /\ r' = [r EXCEPT ![k] = <<>>]
            /\ rs' = Append(rs, k)
            /\ wg' = wg + 2
            /\ pcCut' = [pcCut EXCEPT ![k] = "recv0"]
            /\ pcFetch' = [pcFetch EXCEPT ![k] = "headers"]
            /\ prc' = "branch"
            /\ cur' = k
    /\ UNCHANGED <<vl, vl0, started, stopped, closed, pcDecode, r0, r1, atJoin,
                   cutPre, mkvCalls, otrCalls, fs, extFail, incrCL, incrCut>>
    /\ OnlyPrc

\* lines 145-164: one iteration of the range loop up to the start of the
\* cut and loadCutlist goroutines (map iteration order is not specified)
PrcSpawn(k) ==
    /\ prc = "loop"
    /\ k \in todo
    /\ todo' = todo \ {k}
    /\ IF AlreadyCut(vl[k])
       THEN UNCHANGED <<prc, cur, rs, r, wg, pcCut, pcFetch>>
       ELSE /\ r' = [r EXCEPT ![k] = <<>>]
            /\ rs' = Append(rs, k)
            /\ wg' = wg + 2
            /\ pcCut' = [pcCut EXCEPT ![k] = "recv0"]
            /\ pcFetch' = [pcFetch EXCEPT ![k] = "headers"]
            /\ prc' = "branch"
            /\ cur' = k
    /\ UNCHANGED <<vl, vl0, started, stopped, closed, pcDecode, r0, r1, atJoin,
                   cutPre, mkvCalls, otrCalls, fs, extFail, incrCL, incrCut>>
    /\ OnlyPrc

\* a process that puts no success indication into the channel
PrcBranchNoSend ==
    /\ prc = "branch"
    /\ IF vl[cur].status = vidStatusEnc
       THEN /\ wg' = wg + 1
            /\ pcDecode' = [pcDecode EXCEPT ![cur] = "pre"]
       ELSE UNCHANGED <<wg, pcDecode>>
    /\ UNCHANGED r
    /\ prc' = "loop"
    /\ cur' = 0
    /\ UNCHANGED <<vl, vl0, todo, started, stopped, rs, closed, pcCut, pcFetch,
                   r0, r1, atJoin, cutPre, mkvCalls, otrCalls, fs, extFail, incrCL, incrCut>>
    /\ OnlyPrc

\* a process that starts decode for every video it handles
PrcBranchDecodeAll ==
    /\ prc = "branch"
    /\ wg' = wg + 1
    /\ pcDecode' = [pcDecode EXCEPT ![cur] = "pre"]
    /\ UNCHANGED r
    /\ prc' = "loop"
    /\ cur' = 0
    /\ UNCHANGED <<vl, vl0, todo, started, stopped, rs, closed, pcCut, pcFetch,
                   r0, r1, atJoin, cutPre, mkvCalls, otrCalls, fs, extFail, incrCL, incrCut>>
    /\ OnlyPrc

\* a process that starts decode without wg.Add(1)
PrcBranchNoAdd ==
    /\ prc = "branch"
    /\ IF vl[cur].status = vidStatusEnc
       THEN /\ wg' = wg
            /\ pcDecode' = [pcDecode EXCEPT ![cur] = "pre"]
            /\ UNCHANGED r
       ELSE /\ CanSend(cur)
            /\ r' = [r EXCEPT ![cur] = Append(@, Res(vl[cur].key, FALSE, "process"))]
            /\ UNCHANGED <<wg, pcDecode>>
    /\ prc' = "loop"
    /\ cur' = 0
    /\ UNCHANGED <<vl, vl0, todo, started, stopped, rs, closed, pcCut, pcFetch,
                   r0, r1, atJoin, cutPre, mkvCalls, otrCalls, fs, extFail, incrCL, incrCut>>
    /\ OnlyPrc

\* lines 166-175: start decode for an encoded video, otherwise put the
\* success indication into the channel
PrcBranch ==
    /\ prc = "branch"
    /\ IF vl[cur].status = vidStatusEnc
       THEN /\ wg' = wg + 1
            /\ pcDecode' = [pcDecode EXCEPT ![cur] = "pre"]
            /\ UNCHANGED r
       ELSE /\ CanSend(cur)
            /\ r' = [r EXCEPT ![cur] = Append(@, Res(vl[cur].key, FALSE, "process"))]
            /\ UNCHANGED <<wg, pcDecode>>
    /\ prc' = "loop"
    /\ cur' = 0
    /\ UNCHANGED <<vl, vl0, todo, started, stopped, rs, closed, pcCut, pcFetch,
                   r0, r1, atJoin, cutPre, mkvCalls, otrCalls, fs, extFail, incrCL, incrCut>>
    /\ OnlyPrc

\* a process that goes on without wg.Wait()
PrcWaitNoBarrier ==
    /\ prc = "loop"
    /\ todo = {}
    /\ prc' = "close"
    /\ UNCHANGED <<vl, vl0, todo, cur, started, stopped, rs, r, closed, wg, pcCut,
                   pcFetch, pcDecode, r0, r1, atJoin, cutPre, mkvCalls, otrCalls, fs, extFail, incrCL, incrCut>>
    /\ OnlyPrc

\* lines 178-179: wg.Wait() returns when the counter is zero
PrcWait ==
    /\ prc = "loop"
    /\ todo = {}
    /\ wg = 0
    /\ prc' = "close"
    /\ UNCHANGED <<vl, vl0, todo, cur, started, stopped, rs, r, closed, wg, pcCut,
                   pcFetch, pcDecode, r0, r1, atJoin, cutPre, mkvCalls, otrCalls, fs, extFail, incrCL, incrCut>>
    /\ OnlyPrc

\* lines 181-184: close channels
PrcClose ==
    /\ prc = "close"
    /\ closed' = [k \in Keys |-> ChanMade(k)]
    /\ prc' = "stop"
    /\ UNCHANGED <<vl, vl0, todo, cur, started, stopped, rs, r, wg, pcCut,
                   pcFetch, pcDecode, r0, r1, atJoin, cutPre, mkvCalls, otrCalls, fs, extFail, incrCL, incrCut>>
    /\ OnlyPrc

\* lines 186-187: stop progress tracking, return
PrcStop ==
    /\ prc = "stop"
    /\ stopped' = TRUE
    /\ prc' = "returned"
    /\ UNCHANGED <<vl, vl0, todo, cur, started, rs, r, closed, wg, pcCut,
                   pcFetch, pcDecode, r0, r1, atJoin, cutPre, mkvCalls, otrCalls, fs, extFail, incrCL, incrCut>>
    /\ OnlyPrc

\* cli.go lines 106-109: process has returned, the list is printed
CmdPrint ==
    /\ prc = "returned"
    /\ prc' = "printed"
    /\ UNCHANGED <<vl, vl0, todo, cur, started, stopped, rs, r, closed, wg, pcCut,
                   pcFetch, pcDecode, r0, r1, atJoin, cutPre, mkvCalls, otrCalls,
                   fs, extFail, incrCL, incrCut>>
    /\ OnlyPrc

(***************************************************************************)
(* cut.go: the cut goroutine                                               *)
(***************************************************************************)
\* line 152: r0 := <-r
CutRecv0(k) ==
    /\ pcCut[k] = "recv0"
    /\ CanRecv(k)
    /\ r0' = [r0 EXCEPT ![k] = Recvd(k)]
    /\ r' = [r EXCEPT ![k] = AfterRecv(k)]
    /\ pcCut' = [pcCut EXCEPT ![k] = "recv1"]
    /\ UNCHANGED <<vl, vl0, prc, todo, cur, started, stopped, rs, closed, wg,
                   pcFetch, pcDecode, r1, atJoin, cutPre, mkvCalls, otrCalls, fs, extFail, incrCL, incrCut>>
    /\ OnlyPrc

\* variant of CutRecv1: cut goes on after the first item
CutRecv1Skip(k) ==
    /\ pcCut[k] = "recv1"
    /\ r1' = [r1 EXCEPT ![k] = r0[k]]
    /\ atJoin' = [atJoin EXCEPT ![k] = <<[status |-> vl[k].status, filePath |-> vl[k].filePath]>>]
    /\ pcCut' = [pcCut EXCEPT ![k] = "join"]
    /\ UNCHANGED <<vl, vl0, prc, todo, cur, started, stopped, rs, r, closed, wg,
                   pcFetch, pcDecode, r0, cutPre, mkvCalls, otrCalls, fs, extFail, incrCL, incrCut>>
    /\ OnlyPrc

\* line 153: r1 := <-r
CutRecv1(k) ==
    /\ pcCut[k] = "recv1"
    /\ CanRecv(k)
    /\ r1' = [r1 EXCEPT ![k] = Recvd(k)]
    /\ r' = [r EXCEPT ![k] = AfterRecv(k)]
    /\ atJoin' = [atJoin EXCEPT ![k] = <<[status |-> vl[k].status, filePath |-> vl[k].filePath]>>]
    /\ pcCut' = [pcCut EXCEPT ![k] = "join"]
    /\ UNCHANGED <<vl, vl0, prc, todo, cur, started, stopped, rs, closed, wg,
                   pcFetch, pcDecode, r0, cutPre, mkvCalls, otrCalls, fs, extFail, incrCL, incrCut>>
    /\ OnlyPrc

\* variant of CutSkip: only the first item is checked
CutSkipFirst(a, b) == a.err

\* line 156: one of the two items carries an error
CutSkip(a, b) == a.err \/ b.err

\* lines 156-167: return if decoding or cutlist fetching failed, otherwise
\* preProcessing and, if that worked, the call of mkvmerge
CutJoin(k) ==
    /\ pcCut[k] = "join"
    /\ IF CutSkip(r0[k], r1[k])
       THEN /\ pcCut' = [pcCut EXCEPT ![k] = "done"]
            /\ wg' = wg - 1
            /\ UNCHANGED <<vl, cutPre, mkvCalls, fs, extFail, incrCut>>
       ELSE \E renameOk \in RenameOutcomes(vl[k]) :
              LET pp == preProcessing(vl[k], renameOk)
              IN  /\ vl' = [vl EXCEPT ![k] = pp.v]
                  /\ fs' = preMoves(vl[k], renameOk, fs)
                  /\ extFail' = [extFail EXCEPT ![k] = @ \/ pp.err]
                  /\ cutPre' = [cutPre EXCEPT ![k] = @ + 1]
                  /\ IF pp.err
                     THEN /\ pcCut' = [pcCut EXCEPT ![k] = "done"]
                          /\ wg' = wg - 1
                          /\ UNCHANGED <<mkvCalls, incrCut>>
                     ELSE /\ pcCut' = [pcCut EXCEPT ![k] = "mkvmerge"]
                          /\ mkvCalls' = [mkvCalls EXCEPT ![k] = @ + 1]
                          /\ incrCut' = [incrCut EXCEPT ![k] = "select"]
                          /\ UNCHANGED wg
    /\ UNCHANGED <<vl0, prc, todo, cur, started, stopped, rs, r, closed,
                   pcFetch, pcDecode, r0, r1, atJoin, otrCalls, incrCL>>
    /\ OnlyPrc

\* a cut that does not pass the error of mkvmerge to postProcessing
CutFinishIgnoresErr(k) ==
    /\ pcCut[k] = "mkvmerge"
    /\ incrCut[k] = "select"
    /\ incrCut' = [incrCut EXCEPT ![k] = "final"]
    /\ \E errCut \in ToolErrors(vl[k]), removeOk \in RemoveOutcomes(vl[k]) :
         /\ vl' = [vl EXCEPT ![k] = postProcessing(vl[k], FALSE)]
         /\ fs' = (fs \cup (IF errCut THEN {} ELSE {CutFile(vl[k])}))
                     \ postRemoves(vl[k], errCut, removeOk)
         /\ extFail' = [extFail EXCEPT ![k] =
                           \/ @
                           \/ errCut /\ vl[k].filePath \in fs
                           \/ ~errCut /\ doCleanUp /\ ~removeOk]
    /\ pcCut' = [pcCut EXCEPT ![k] = "done"]
    /\ wg' = wg - 1
    /\ UNCHANGED <<vl0, prc, todo, cur, started, stopped, rs, r, closed,
                   pcFetch, pcDecode, r0, r1, atJoin, cutPre, mkvCalls, otrCalls, incrCL>>
    /\ OnlyPrc

\* lines 167-174: mkvmerge returns (errCut: with an error), postProcessing,
\* wg.Done
CutFinish(k) ==
    /\ pcCut[k] = "mkvmerge"
    /\ incrCut[k] = "select"
    /\ incrCut' = [incrCut EXCEPT ![k] = "final"]
    /\ \E errCut \in ToolErrors(vl[k]), removeOk \in RemoveOutcomes(vl[k]) :
         /\ vl' = [vl EXCEPT ![k] = postProcessing(vl[k], errCut)]
         /\ fs' = (fs \cup (IF errCut THEN {} ELSE {CutFile(vl[k])}))
                     \ postRemoves(vl[k], errCut, removeOk)
         /\ extFail' = [extFail EXCEPT ![k] =
                           \/ @
                           \/ errCut /\ vl[k].filePath \in fs
                           \/ ~errCut /\ doCleanUp /\ ~removeOk]
    /\ pcCut' = [pcCut EXCEPT ![k] = "done"]
    /\ wg' = wg - 1
    /\ UNCHANGED <<vl0, prc, todo, cur, started, stopped, rs, r, closed,
                   pcFetch, pcDecode, r0, r1, atJoin, cutPre, mkvCalls, otrCalls, incrCL>>
    /\ OnlyPrc

\* a fetchCutlist that goes on to the details after it has sent the error
FetchHeadersNoReturn(k) ==
    /\ pcFetch[k] = "headers"
    /\ \E found \in BOOLEAN :
         IF found
         THEN /\ pcFetch' = [pcFetch EXCEPT ![k] = "details"]
              /\ incrCL' = [incrCL EXCEPT ![k] = "select"]
              /\ UNCHANGED <<r, wg>>
         ELSE /\ CanSend(k)
              /\ r' = [r EXCEPT ![k] = Append(@, Res(vl[k].key, TRUE, "fetchCutlist"))]
              /\ incrCL' = [incrCL EXCEPT ![k] = "select"]
              /\ pcFetch' = [pcFetch EXCEPT ![k] = "details"]
              /\ UNCHANGED wg
    /\ UNCHANGED <<vl, vl0, prc, todo, cur, started, stopped, rs, closed,
                   pcCut, pcDecode, r0, r1, atJoin, cutPre, mkvCalls, otrCalls,
                   fs, extFail, incrCut>>
    /\ OnlyPrc

(***************************************************************************)
(* cutlist.go: the fetchCutlist goroutine (started as loadCutlist)         *)
(***************************************************************************)
\* lines 77-98: fetch the headers (found: at least one id came back); with
\* none an error item is sent and the goroutine ends
FetchHeaders(k) ==
    /\ pcFetch[k] = "headers"
    /\ \E found \in BOOLEAN :
         IF found
         THEN /\ pcFetch' = [pcFetch EXCEPT ![k] = "details"]
              /\ incrCL' = [incrCL EXCEPT ![k] = "select"]
              /\ UNCHANGED <<r, wg>>
         ELSE /\ CanSend(k)
              /\ r' = [r EXCEPT ![k] = Append(@, Res(vl[k].key, TRUE, "fetchCutlist"))]
              /\ incrCL' = [incrCL EXCEPT ![k] = "final"]
              /\ pcFetch' = [pcFetch EXCEPT ![k] = "done"]
              /\ wg' = wg - 1
    /\ UNCHANGED <<vl, vl0, prc, todo, cur, started, stopped, rs, closed,
                   pcCut, pcDecode, r0, r1, atJoin, cutPre, mkvCalls, otrCalls,
                   fs, extFail, incrCut>>
    /\ OnlyPrc

\* a fetchCutlist that records a failed fetch in the result of the video
FetchDetailsSetsRes(k) ==
    /\ pcFetch[k] = "details"
    /\ CanSend(k)
    /\ incrCL[k] = "select"
    /\ incrCL' = [incrCL EXCEPT ![k] = "final"]
    /\ \E c \in {<<>>} \cup {<<x>> : x \in FetchedCutlists} :
         /\ vl' = [vl EXCEPT ![k].cl = c,
                             ![k].res = IF c = <<>> THEN vidResultErr ELSE @]
         /\ r' = [r EXCEPT ![k] = Append(@, Res(vl[k].key, c = <<>>, "fetchCutlist"))]
    /\ pcFetch' = [pcFetch EXCEPT ![k] = "done"]
    /\ wg' = wg - 1
    /\ UNCHANGED <<vl0, prc, todo, cur, started, stopped, rs, closed,
                   pcCut, pcDecode, r0, r1, atJoin, cutPre, mkvCalls, otrCalls,
                   fs, extFail, incrCut>>
    /\ OnlyPrc

\* lines 100-110: v.cl = fetchCutlistDetails(ids); an error item is sent if
\* that is nil, a success item otherwise; then the deferred calls: the send on
\* the unbuffered stop, which goes through when autoIncr receives, and
\* wg.Done
FetchDetails(k) ==
    /\ pcFetch[k] = "details"
    /\ CanSend(k)
    /\ incrCL[k] = "select"
    /\ incrCL' = [incrCL EXCEPT ![k] = "final"]
    /\ \E c \in {<<>>} \cup {<<x>> : x \in FetchedCutlists} :
         /\ vl' = [vl EXCEPT ![k].cl = c]
         /\ r' = [r EXCEPT ![k] = Append(@, Res(vl[k].key, c = <<>>, "fetchCutlist"))]
    /\ pcFetch' = [pcFetch EXCEPT ![k] = "done"]
    /\ wg' = wg - 1
    /\ UNCHANGED <<vl0, prc, todo, cur, started, stopped, rs, closed,
                   pcCut, pcDecode, r0, r1, atJoin, cutPre, mkvCalls, otrCalls,
                   fs, extFail, incrCut>>
    /\ OnlyPrc

(***************************************************************************)
(* video.go: the autoIncr goroutine.  It waits in a select for a tick or   *)
(* for stop; a tick only moves the progress bar, so only the stop case is  *)
(* a step here.                                                            *)
(***************************************************************************)
\* lines 108-114 for fetchCutlist: after <-stop set the bar to 100, stop the
\* ticker and return
IncrFinalCL(k) ==
    /\ incrCL[k] = "final"
    /\ incrCL' = [incrCL EXCEPT ![k] = "done"]
    /\ UNCHANGED <<vl, vl0, prc, todo, cur, started, stopped, rs, r, closed, wg,
                   pcCut, pcFetch, pcDecode, r0, r1, atJoin, cutPre, mkvCalls,
                   otrCalls, fs, extFail, incrCut>>
    /\ OnlyPrc

\* lines 108-114 for callMKVmerge
IncrFinalCut(k) ==
    /\ incrCut[k] = "final"
    /\ incrCut' = [incrCut EXCEPT ![k] = "done"]
    /\ UNCHANGED <<vl, vl0, prc, todo, cur, started, stopped, rs, r, closed, wg,
                   pcCut, pcFetch, pcDecode, r0, r1, atJoin, cutPre, mkvCalls,
                   otrCalls, fs, extFail, incrCL>>
    /\ OnlyPrc

(***************************************************************************)
(* decode.go: the decode goroutine                                         *)
(***************************************************************************)
\* lines 122-133: preProcessing; if it fails its error is sent, otherwise
\* otrdecoder is called
DecodePre(k) ==
    /\ pcDecode[k] = "pre"
    /\ \E renameOk \in RenameOutcomes(vl[k]) :
         LET pp == preProcessing(vl[k], renameOk)
         IN  /\ vl' = [vl EXCEPT ![k] = pp.v]
             /\ fs' = preMoves(vl[k], renameOk, fs)
             /\ extFail' = [extFail EXCEPT ![k] = @ \/ pp.err]
             /\ IF pp.err
                THEN /\ CanSend(k)
                     /\ r' = [r EXCEPT ![k] = Append(@, Res(vl[k].key, TRUE, "decode"))]
                     /\ pcDecode' = [pcDecode EXCEPT ![k] = "done"]
                     /\ wg' = wg - 1
                     /\ UNCHANGED otrCalls
                ELSE /\ pcDecode' = [pcDecode EXCEPT ![k] = "otrdecoder"]
                     /\ otrCalls' = [otrCalls EXCEPT ![k] = @ + 1]
                     /\ UNCHANGED <<r, wg>>
    /\ UNCHANGED <<vl0, prc, todo, cur, started, stopped, rs, closed,
                   pcCut, pcFetch, r0, r1, atJoin, cutPre, mkvCalls, incrCL, incrCut>>
    /\ OnlyPrc

\* a decode that calls otrdecoder a second time when the first call failed
DecodeFinishRetry(k) ==
    /\ pcDecode[k] = "otrdecoder"
    /\ CanSend(k)
    /\ \E errOTR \in ToolErrors(vl[k]), removeOk \in RemoveOutcomes(vl[k]) :
         IF errOTR /\ otrCalls[k] < 2
         THEN /\ otrCalls' = [otrCalls EXCEPT ![k] = @ + 1]
              /\ UNCHANGED <<vl, fs, extFail, r, pcDecode, wg>>
         ELSE /\ vl' = [vl EXCEPT ![k] = postProcessing(vl[k], errOTR)]
              /\ fs' = (fs \cup (IF errOTR THEN {} ELSE {DecodedFile(vl[k].filePath)}))
                          \ postRemoves(vl[k], errOTR, removeOk)
              /\ extFail' = [extFail EXCEPT ![k] =
                                \/ @
                                \/ errOTR /\ vl[k].filePath \in fs
                                \/ ~errOTR /\ doCleanUp /\ ~removeOk]
              /\ r' = [r EXCEPT ![k] = Append(@, Res(vl[k].key, errOTR, "decode"))]
              /\ pcDecode' = [pcDecode EXCEPT ![k] = "done"]
              /\ wg' = wg - 1
              /\ UNCHANGED otrCalls
    /\ UNCHANGED <<vl0, prc, todo, cur, started, stopped, rs, closed,
                   pcCut, pcFetch, r0, r1, atJoin, cutPre, mkvCalls, incrCL, incrCut>>
    /\ OnlyPrc

\* lines 133-149: otrdecoder returns (errOTR: with an error), postProcessing,
\* the result is sent, wg.Done
DecodeFinish(k) ==
    /\ pcDecode[k] = "otrdecoder"
    /\ CanSend(k)
    /\ \E errOTR \in ToolErrors(vl[k]), removeOk \in RemoveOutcomes(vl[k]) :
         /\ vl' = [vl EXCEPT ![k] = postProcessing(vl[k], errOTR)]
         /\ fs' = (fs \cup (IF errOTR THEN {} ELSE {DecodedFile(vl[k].filePath)}))
                     \ postRemoves(vl[k], errOTR, removeOk)
         /\ extFail' = [extFail EXCEPT ![k] =
                           \/ @
                           \/ errOTR /\ vl[k].filePath \in fs
                           \/ ~errOTR /\ doCleanUp /\ ~removeOk]
         /\ r' = [r EXCEPT ![k] = Append(@, Res(vl[k].key, errOTR, "decode"))]
    /\ pcDecode' = [pcDecode EXCEPT ![k] = "done"]
    /\ wg' = wg - 1
    /\ UNCHANGED <<vl0, prc, todo, cur, started, stopped, rs, closed,
                   pcCut, pcFetch, r0, r1, atJoin, cutPre, mkvCalls, otrCalls, incrCL, incrCut>>
    /\ OnlyPrc

(***************************************************************************)
(* Spec: process on a list as read can leave it: every video has no result *)
(* and no cutlist, and its file is in the working dir or already in the    *)
(* sub directory of its status.                                            *)
(***************************************************************************)
ReadVideos(k) ==
    {Video(k, s, FileOf(d, k, s)) : s \in Statuses, d \in {"wrk"}} \cup
    {Video(k, s, FileOf(DirOf(s), k, s)) : s \in Statuses}

Init ==
    /\ vl \in {f \in [Keys -> UNION {ReadVideos(k) : k \in Keys}] :
                 \A k \in Keys : f[k] \in ReadVideos(k)}
    /\ vl0 = vl
    /\ prc = "begin" /\ todo = {} /\ cur = 0
    /\ started = FALSE /\ stopped = FALSE
    /\ rs = <<>>
    /\ r = [k \in Keys |-> <<>>]
    /\ closed = [k \in Keys |-> FALSE]
    /\ wg = 0
    /\ pcCut = [k \in Keys |-> "none"]
    /\ pcFetch = [k \in Keys |-> "none"]
    /\ pcDecode = [k \in Keys |-> "none"]
    /\ r0 = [k \in Keys |-> NoRes]
    /\ r1 = [k \in Keys |-> NoRes]
    /\ atJoin = [k \in Keys |-> <<>>]
    /\ cutPre = [k \in Keys |-> 0]
    /\ mkvCalls = [k \in Keys |-> 0]
    /\ otrCalls = [k \in Keys |-> 0]
    /\ fs = {vl[k].filePath : k \in Keys}
    /\ extFail = [k \in Keys |-> FALSE]
    /\ incrCL = [k \in Keys |-> "none"]
    /\ incrCut = [k \in Keys |-> "none"]
    /\ HdrIdle
    /\ DetIdle
    /\ ReadIdle
    /\ doCleanUp \in BOOLEAN
    /\ cmd = "process"
    /\ XIdle

Next ==
    \/ PrcBegin
    \/ \E k \in Keys : PrcSpawn(k)
    \/ PrcBranch
    \/ PrcWait
    \/ PrcClose
    \/ PrcStop
    \/ CmdPrint
    \/ \E k \in Keys : CutRecv0(k)
    \/ \E k \in Keys : CutRecv1(k)
    \/ \E k \in Keys : CutJoin(k)
    \/ \E k \in Keys : CutFinish(k)
    \/ \E k \in Keys : FetchHeaders(k)
    \/ \E k \in Keys : FetchDetails(k)
    \/ \E k \in Keys : IncrFinalCL(k)
    \/ \E k \in Keys : IncrFinalCut(k)
    \/ \E k \in Keys : DecodePre(k)
    \/ \E k \in Keys : DecodeFinish(k)

Spec == Init /\ [][Next]_vars

(***************************************************************************)
(* cutlist.go: clHeaders and the tail of fetchCutlistHeaders               *)
(***************************************************************************)
ClHeader(id, score) == [id |-> id, score |-> score]

\* clHeaders.Less: sort descending by score
Less(clhs_, i, j) == clhs_[i].score > clhs_[j].score

\* clHeaders.Swap
Swap(clhs_, i, j) == [clhs_ EXCEPT ![i] = clhs_[j], ![j] = clhs_[i]]

RECURSIVE insertionInner(_, _)
\* inner loop of insertionSort: for j := i; j > a && Less(j, j-1); j--
insertionInner(data, j) ==
    IF j > 1 /\ Less(data, j, j - 1)
    THEN insertionInner(Swap(data, j, j - 1), j - 1)
    ELSE data

RECURSIVE insertionSort(_, _)
\* insertionSort(data, a, b) from position i on, with a the first position
insertionSort(data, i) ==
    IF i <= Len(data)
    THEN insertionSort(insertionInner(data, i), i + 1)
    ELSE data

RECURSIVE shellPass(_, _)
\* the ShellSort pass with gap 6 that quickSort does before insertionSort
shellPass(data, i) ==
    IF i <= Len(data)
    THEN shellPass(IF Less(data, i, i - 6) THEN Swap(data, i, i - 6) ELSE data, i + 1)
    ELSE data

\* sort.Sort on at most 12 elements.  The library does not promise a
\* stable order; which order equal elements get depends on the Go release
\* the binary is built with:
\*   "quickSort"  (up to Go 1.18)  ShellSort pass with gap 6, then insertionSort
\*   "pdqsort"    (from Go 1.19)   insertionSort
SortImpls == {"quickSort", "pdqsort"}

sortSort(data, impl) ==
    IF Len(data) <= 1
    THEN data
    ELSE IF impl = "quickSort"
         THEN insertionSort(shellPass(data, 7), 2)
         ELSE insertionSort(data, 2)

\* line 360: sort clHeaders descending by score
HdrSort ==
    /\ hpc = "sort"
    /\ clhs' = sortSort(clhs, sortImpl)
    /\ hpc' = "ids"
    /\ UNCHANGED <<clhs0, ids, sortImpl>>
    /\ UNCHANGED <<pvars, dvars, rvars, xvars>>

\* lines 362-368: build up the id list from the header list and return it
HdrIds ==
    /\ hpc = "ids"
    /\ ids' = [i \in 1..Len(clhs) |-> clhs[i].id]
    /\ hpc' = "ret"
    /\ UNCHANGED <<clhs, clhs0, sortImpl>>
    /\ UNCHANGED <<pvars, dvars, rvars, xvars>>

(***************************************************************************)
(* SpecHdr: the header list as the token loop leaves it: the entries of    *)
(* the response in response order.  The id of an entry is its position in  *)
(* the response; its score is its rating.                                  *)
(***************************************************************************)
Scores == {5, 9}

Responses ==
    UNION {{[i \in 1..n |-> ClHeader(i, sc[i])] : sc \in [1..n -> Scores]} : n \in 0..MaxHdrs}

InitHdr ==
    /\ PrcIdle
    /\ DetIdle
    /\ ReadIdle
    /\ doCleanUp = FALSE
    /\ cmd = "process"
    /\ clhs \in Responses
    /\ clhs0 = clhs
    /\ ids = <<>>
    /\ sortImpl \in SortImpls
    /\ hpc = "sort"
    /\ XIdle

NextHdr ==
    \/ HdrSort
    \/ HdrIds

SpecHdr == InitHdr /\ [][NextHdr]_vars

(***************************************************************************)
(* cutlist.go: fetchCutlistDetails                                         *)
(*                                                                         *)
(* The document of a candidate is input.  Its general part is chosen when  *)
(* the document is fetched, each cut section when GetSection looks it up   *)
(* (every section is looked up at most once).  A key that is missing has   *)
(* the value Nil; the value of a key is the string of the document.        *)
(***************************************************************************)
\* strconv.Atoi with the error dropped: the number a decimal string
\* denotes, 0 for any other string
Atoi(str) ==
    IF \E n \in 0..25 : ToString(n) = str
    THEN CHOOSE n \in 0..25 : ToString(n) = str
    ELSE 0

\* strconv.ParseFloat with the error dropped (whole numbers only)
ParseFloat(str) == Atoi(str)

\* Section.HasKey
HasKey(sec, key) == sec[key] # Nil

\* the general parts a document can have: the request, reading the body or
\* loading the INI data can fail, the section general can be missing, and
\* each key of it can be missing
Docs ==
    {[NoDoc EXCEPT !.state = st] : st \in {"getErr", "readErr", "iniErr", "noGeneral"}} \cup
    [state : {"ok"}, ratio : {Nil, "16:9"}, fps : {Nil, "25"}, app : {Nil, "Avidemux"},
     noofcuts : {Nil, "x"} \cup {ToString(n) : n \in 0..MaxCuts}]

\* time and frame pairs of a cut section: both keys missing, start 0 and
\* duration 0, and two pairs with a duration
Pairs == {<<Nil, Nil>>, <<"0", "0">>, <<"0", "7">>, <<"7", "3">>}

Section(t, f) ==
    [present |-> TRUE, start |-> t[1], duration |-> t[2],
     startframe |-> f[1], durationframes |-> f[2]]

\* the document has no section cut{i}
NoSection ==
    [present |-> FALSE, start |-> Nil, duration |-> Nil,
     startframe |-> Nil, durationframes |-> Nil]

Sections == {Section(t, f) : t \in Pairs, f \in Pairs} \cup {NoSection}

\* variant of ParseSeg: start and duration of the time pair change places
ParseSegSwapped(sec) ==
    Seg(IF HasKey(sec, "duration") THEN ParseFloat(sec.duration) ELSE 0,
        IF HasKey(sec, "start") THEN ParseFloat(sec.start) ELSE 0,
        IF HasKey(sec, "startframe") THEN Atoi(sec.startframe) ELSE 0,
        IF HasKey(sec, "durationframes") THEN Atoi(sec.durationframes) ELSE 0)

\* lines 216-238: sg = new(seg), filled from the keys the section has
ParseSeg(sec) ==
    Seg(IF HasKey(sec, "start") THEN ParseFloat(sec.start) ELSE 0,
        IF HasKey(sec, "duration") THEN ParseFloat(sec.duration) ELSE 0,
        IF HasKey(sec, "startframe") THEN Atoi(sec.startframe) ELSE 0,
        IF HasKey(sec, "durationframes") THEN Atoi(sec.durationframes) ELSE 0)

\* line 240: the cut does not have sufficient information
Insufficient(sg) ==
    (sg.timeStart = 0 /\ sg.timeDur = 0) \/ (sg.frameStart = 0 /\ sg.frameDur = 0)

\* lines 139: the range loop is over
DetLoopEnd ==
    /\ dpc = "for"
    /\ idx > Len(ids)
    /\ dpc' = "ret"
    /\ UNCHANGED <<idx, cl, clRetrieved, numCuts, cutI, result, fetched, doc, raws,
                   unreadNeither, tried>>
    /\ UNCHANGED <<pvars, clhs, clhs0, ids, sortImpl, hpc, rvars, xvars>>

\* variant of DetFetch: a document without the number of cuts ends the
\* search
DetFetchGivesUp ==
    /\ dpc = "for"
    /\ idx <= Len(ids)
    /\ \E d \in Docs :
         LET id == ids[idx]
             c == [Cutlist(id, <<>>) EXCEPT
                     !.ratio = IF d.ratio # Nil THEN d.ratio ELSE "",
                     !.fps = IF d.fps # Nil THEN ParseFloat(d.fps) ELSE 0,
                     !.app = IF d.app # Nil THEN d.app ELSE ""]
         IN  /\ doc' = d
             /\ fetched' = Append(fetched, id)
             /\ clRetrieved' = FALSE
             /\ raws' = <<>>
             /\ unreadNeither' = FALSE
             /\ IF d.state # "ok"
                THEN /\ cl' = <<Cutlist(id, <<>>)>>
                     /\ idx' = idx + 1
                     /\ tried' = Append(tried, [id |-> id, segs |-> 0, cl |-> cl'[1]])
                     /\ UNCHANGED <<dpc, numCuts, cutI>>
                ELSE IF d.noofcuts = Nil
                THEN /\ cl' = <<c>>
                     /\ dpc' = "ret"
                     /\ tried' = Append(tried, [id |-> id, segs |-> 0, cl |-> cl'[1]])
                     /\ UNCHANGED <<idx, numCuts, cutI>>
                ELSE /\ cl' = <<c>>
                     /\ numCuts' = Atoi(d.noofcuts)
                     /\ cutI' = 0
                     /\ dpc' = "cuts"
                     /\ UNCHANGED <<idx, tried>>
    /\ UNCHANGED result
    /\ UNCHANGED <<pvars, clhs, clhs0, ids, sortImpl, hpc, rvars, xvars>>

\* variant of DetFetch: the cutlist of the candidate before is used again
DetFetchReusesCutlist ==
    /\ dpc = "for"
    /\ idx <= Len(ids)
    /\ \E d \in Docs :
         LET id == ids[idx]
             c == [(IF cl = <<>> THEN Cutlist(id, <<>>)
                    ELSE [cl[1] EXCEPT !.id = id, !.segs = <<>>]) EXCEPT
                     !.ratio = IF d.ratio # Nil THEN d.ratio ELSE @,
                     !.fps = IF d.fps # Nil THEN ParseFloat(d.fps) ELSE 0,
                     !.app = IF d.app # Nil THEN d.app ELSE ""]
         IN  /\ doc' = d
             /\ fetched' = Append(fetched, id)
             /\ clRetrieved' = FALSE
             /\ raws' = <<>>
             /\ unreadNeither' = FALSE
             /\ IF d.state # "ok"
                THEN /\ cl' = <<Cutlist(id, <<>>)>>
                     /\ idx' = idx + 1
                     /\ tried' = Append(tried, [id |-> id, segs |-> 0, cl |-> cl'[1]])
                     /\ UNCHANGED <<dpc, numCuts, cutI>>
                ELSE IF d.noofcuts = Nil
                THEN /\ cl' = <<c>>
                     /\ idx' = idx + 1
                     /\ tried' = Append(tried, [id |-> id, segs |-> 0, cl |-> cl'[1]])
                     /\ UNCHANGED <<dpc, numCuts, cutI>>
                ELSE /\ cl' = <<c>>
                     /\ numCuts' = Atoi(d.noofcuts)
                     /\ cutI' = 0
                     /\ dpc' = "cuts"
                     /\ UNCHANGED <<idx, tried>>
    /\ UNCHANGED result
    /\ UNCHANGED <<pvars, clhs, clhs0, ids, sortImpl, hpc, rvars, xvars>>

\* lines 139-207: next candidate: new cutlist, fetch and open its document,
\* read the general section; any failure but a missing ratio, fps or
\* application continues with the next candidate
DetFetch ==
    /\ dpc = "for"
    /\ idx <= Len(ids)
    /\ \E d \in Docs :
         LET id == ids[idx]
             c == [Cutlist(id, <<>>) EXCEPT
                     !.ratio = IF d.ratio # Nil THEN d.ratio ELSE "",
                     !.fps = IF d.fps # Nil THEN ParseFloat(d.fps) ELSE 0,
                     !.app = IF d.app # Nil THEN d.app ELSE ""]
         IN  /\ doc' = d
             /\ fetched' = Append(fetched, id)
             /\ clRetrieved' = FALSE
             /\ raws' = <<>>
             /\ unreadNeither' = FALSE
             /\ IF d.state # "ok"
                THEN /\ cl' = <<Cutlist(id, <<>>)>>
                     /\ idx' = idx + 1
                     /\ tried' = Append(tried, [id |-> id, segs |-> 0, cl |-> cl'[1]])
                     /\ UNCHANGED <<dpc, numCuts, cutI>>
                ELSE IF d.noofcuts = Nil
                THEN /\ cl' = <<c>>
                     /\ idx' = idx + 1
                     /\ tried' = Append(tried, [id |-> id, segs |-> 0, cl |-> cl'[1]])
                     /\ UNCHANGED <<dpc, numCuts, cutI>>
                ELSE /\ cl' = <<c>>
                     /\ numCuts' = Atoi(d.noofcuts)
                     /\ cutI' = 0
                     /\ dpc' = "cuts"
                     /\ UNCHANGED <<idx, tried>>
    /\ UNCHANGED result
    /\ UNCHANGED <<pvars, clhs, clhs0, ids, sortImpl, hpc, rvars, xvars>>

\* lines 210-247: one iteration of the loop over the cuts.  When the loop is
\* left by break while declared sections are unread, unreadNeither records
\* whether one of those has neither a time nor a frame key.
DetCut ==
    /\ dpc = "cuts"
    /\ cutI < numCuts
    /\ \E sec \in Sections, un \in BOOLEAN :
         LET sg == ParseSeg(sec)
             c == [cl[1] EXCEPT
                     !.timeBased = @ \/ (sec.present /\ HasKey(sec, "start")),
                     !.frameBased = @ \/ (sec.present /\ HasKey(sec, "startframe"))]
         IN  /\ raws' = Append(raws, sec)
             /\ IF ~sec.present
                THEN /\ dpc' = "after"
                     /\ unreadNeither' = (un /\ cutI + 1 < numCuts)
                     /\ UNCHANGED <<cl, cutI>>
                ELSE IF Insufficient(sg)
                THEN /\ cl' = <<[c EXCEPT !.segs = <<>>]>>
                     /\ dpc' = "after"
                     /\ unreadNeither' = (un /\ cutI + 1 < numCuts)
                     /\ UNCHANGED cutI
                ELSE /\ cl' = <<[c EXCEPT !.segs = Append(@, sg)]>>
                     /\ cutI' = cutI + 1
                     /\ UNCHANGED <<dpc, unreadNeither>>
    /\ UNCHANGED <<idx, clRetrieved, numCuts, result, fetched, doc, tried>>
    /\ UNCHANGED <<pvars, clhs, clhs0, ids, sortImpl, hpc, rvars, xvars>>

\* variant of DetAfter: the loop goes on after a cutlist was parsed
DetAfterNoBreak ==
    /\ \/ dpc = "after"
       \/ dpc = "cuts" /\ cutI >= numCuts
    /\ tried' = Append(tried, [id |-> cl[1].id, segs |-> Len(cl[1].segs), cl |-> cl[1]])
    /\ clRetrieved' = (Len(cl[1].segs) # 0)
    /\ idx' = idx + 1
    /\ dpc' = "for"
    /\ UNCHANGED <<cl, numCuts, cutI, result, fetched, doc, raws, unreadNeither>>
    /\ UNCHANGED <<pvars, clhs, clhs0, ids, sortImpl, hpc, rvars, xvars>>

\* variant of DetAfter: a candidate without segments is taken as well
DetAfterTakesEmpty ==
    /\ \/ dpc = "after"
       \/ dpc = "cuts" /\ cutI >= numCuts
    /\ tried' = Append(tried, [id |-> cl[1].id, segs |-> Len(cl[1].segs), cl |-> cl[1]])
    /\ clRetrieved' = TRUE
    /\ dpc' = "ret"
    /\ UNCHANGED idx
    /\ UNCHANGED <<cl, numCuts, cutI, result, fetched, doc, raws, unreadNeither>>
    /\ UNCHANGED <<pvars, clhs, clhs0, ids, sortImpl, hpc, rvars, xvars>>

\* lines 248-256: after the loop over the cuts: without segments continue
\* with the next candidate, otherwise the cutlist is retrieved: leave the loop
DetAfter ==
    /\ \/ dpc = "after"
       \/ dpc = "cuts" /\ cutI >= numCuts
    /\ tried' = Append(tried, [id |-> cl[1].id, segs |-> Len(cl[1].segs), cl |-> cl[1]])
    /\ IF Len(cl[1].segs) = 0
       THEN /\ idx' = idx + 1
            /\ dpc' = "for"
            /\ UNCHANGED clRetrieved
       ELSE /\ clRetrieved' = TRUE
            /\ dpc' = "ret"
            /\ UNCHANGED idx
    /\ UNCHANGED <<cl, numCuts, cutI, result, fetched, doc, raws, unreadNeither>>
    /\ UNCHANGED <<pvars, clhs, clhs0, ids, sortImpl, hpc, rvars, xvars>>

\* lines 259-263: return either cutlist or nil
DetReturn ==
    /\ dpc = "ret"
    /\ result' = IF clRetrieved THEN cl ELSE <<>>
    /\ dpc' = "done"
    /\ UNCHANGED <<idx, cl, clRetrieved, numCuts, cutI, fetched, doc, raws,
                   unreadNeither, tried>>
    /\ UNCHANGED <<pvars, clhs, clhs0, ids, sortImpl, hpc, rvars, xvars>>

(***************************************************************************)
(* SpecDet: fetchCutlistDetails on the ids 1..n of n candidates            *)
(***************************************************************************)
InitDet ==
    /\ PrcIdle
    /\ ReadIdle
    /\ doCleanUp = FALSE
    /\ cmd = "process"
    /\ clhs = <<>> /\ clhs0 = <<>> /\ sortImpl = Nil /\ hpc = "idle"
    /\ ids \in {[n \in 1..m |-> n] : m \in 0..MaxIds}
    /\ dpc = "for" /\ idx = 1 /\ cl = <<>> /\ clRetrieved = FALSE
    /\ numCuts = 0 /\ cutI = 0 /\ result = <<>> /\ fetched = <<>>
    /\ doc = NoDoc /\ raws = <<>> /\ unreadNeither = FALSE /\ tried = <<>>
    /\ XIdle

NextDet ==
    \/ DetLoopEnd
    \/ DetFetch
    \/ DetCut
    \/ DetAfter
    \/ DetReturn

SpecDet == InitDet /\ [][NextDet]_vars

(***************************************************************************)
(* videolist.go: analyzeFile and read; video.go: updateFromFile            *)
(***************************************************************************)
\* analyzeFile: a name that is no OTR file name is an error; otherwise the
\* status follows from the name (.otrkey: encoded, .cut.: cut, else
\* decoded), the key is the name without these parts and the extension
analyzeFile(f) ==
    IF f.key = 0
    THEN [key |-> 0, status |-> "", err |-> TRUE]
    ELSE IF f.ext = ".otrkey"
    THEN [key |-> f.key, status |-> vidStatusEnc, err |-> FALSE]
    ELSE IF f.mid = ".cut"
    THEN [key |-> f.key, status |-> vidStatusCut, err |-> FALSE]
    ELSE [key |-> f.key, status |-> vidStatusDec, err |-> FALSE]

\* variant of updateFromFile: the file read last wins
updateFromFileLast(v, status, filePath, removeOk) ==
    IF filePath = v.filePath
    THEN [v |-> v, rm |-> {}, failed |-> FALSE]
    ELSE [v |-> [v EXCEPT !.status = status, !.filePath = filePath], rm |-> {},
          failed |-> FALSE]

\* variant of updateFromFile: a file of the same status replaces the path
updateFromFileEqual(v, status, filePath, removeOk) ==
    IF filePath = v.filePath
    THEN [v |-> v, rm |-> {}, failed |-> FALSE]
    ELSE IF StatusRank(status) >= StatusRank(v.status)
    THEN [v |-> [v EXCEPT !.status = status, !.filePath = filePath], rm |-> {},
          failed |-> FALSE]
    ELSE [v |-> v, rm |-> IF doCleanUp /\ removeOk THEN {filePath} ELSE {},
          failed |-> doCleanUp /\ ~removeOk]

\* updateFromFile: the video takes status and path of the file if the file
\* is further processed than the video; otherwise the file is deleted when
\* clean up is asked for.  rm is the set of files removed; removeOk is the
\* outcome of os.Remove.
updateFromFile(v, status, filePath, removeOk) ==
    IF filePath = v.filePath
    THEN [v |-> v, rm |-> {}, failed |-> FALSE]
    ELSE IF \/ v.status = vidStatusEnc /\ status # vidStatusEnc
            \/ v.status = vidStatusDec /\ status = vidStatusCut
    THEN [v |-> [v EXCEPT !.status = status, !.filePath = filePath], rm |-> {},
          failed |-> FALSE]
    ELSE [v |-> v, rm |-> IF doCleanUp /\ removeOk THEN {filePath} ELSE {},
          failed |-> doCleanUp /\ ~removeOk]

\* the files read can find: for every key and status a file in the working
\* dir and one in the sub directory of the status, and a file that is no
\* OTR file
ScanFiles ==
    {FileOf(d, k, st) : d \in {"wrk"}, k \in Keys, st \in Statuses} \cup
    {FileOf(DirOf(st), k, st) : k \in Keys, st \in Statuses} \cup
    {Path("wrk", 0, "", ".txt")}

\* lines 211-216: filepath.Glob for the next pattern; a pattern that cannot
\* be interpreted is skipped
ReadGlob ==
    /\ rpc \in {"patterns", "files"}
    /\ \E globErr \in BOOLEAN :
         /\ readErr' = IF globErr THEN "glob" ELSE Nil
         /\ rpc' = IF globErr THEN rpc ELSE "files"
    /\ UNCHANGED <<vl, doCleanUp, cmd, seen, nScan, removed, readRet, lastFile, rmFailed>>
    /\ UNCHANGED <<vl0, prc, todo, cur, started, stopped, rs, r, closed, wg, pcCut,
                   pcFetch, pcDecode, r0, r1, atJoin, cutPre, mkvCalls, otrCalls, fs, extFail,
                   incrCL, incrCut>>
    /\ UNCHANGED <<hvars, dvars, xvars>>

\* lines 218-255: one file of the pattern: no OTR file: skip; a file of a
\* video of the list updates that video; otherwise a new video is added
ReadFile ==
    /\ rpc = "files"
    /\ nScan < MaxScan
    /\ \E f \in ScanFiles \ removed, removeOk \in BOOLEAN :
         LET a == analyzeFile(f)
         IN  /\ seen' = seen \cup {f}
             /\ nScan' = nScan + 1
             /\ lastFile' = <<f>>
             /\ readErr' = IF a.err THEN "noOTR" ELSE Nil
             /\ IF a.err
                THEN UNCHANGED <<vl, removed, rmFailed>>
                ELSE IF a.key \in DOMAIN vl
                THEN LET u == updateFromFile(vl[a.key], a.status, f, removeOk)
                     IN  /\ vl' = [vl EXCEPT ![a.key] = u.v]
                         /\ removed' = removed \cup u.rm
                         /\ rmFailed' = (rmFailed \/ u.failed)
                ELSE /\ vl' = [k \in DOMAIN vl \cup {a.key} |->
                                  IF k = a.key THEN Video(a.key, a.status, f) ELSE vl[k]]
                     /\ UNCHANGED <<removed, rmFailed>>
    /\ UNCHANGED <<rpc, doCleanUp, cmd, readRet>>
    /\ UNCHANGED <<vl0, prc, todo, cur, started, stopped, rs, r, closed, wg, pcCut,
                   pcFetch, pcDecode, r0, r1, atJoin, cutPre, mkvCalls, otrCalls, fs, extFail,
                   incrCL, incrCut>>
    /\ UNCHANGED <<hvars, dvars, xvars>>

\* line 259: return err
ReadReturn ==
    /\ rpc = "files"
    /\ readRet' = readErr
    /\ rpc' = "done"
    /\ UNCHANGED <<vl, doCleanUp, cmd, seen, nScan, removed, readErr, lastFile, rmFailed>>
    /\ UNCHANGED <<vl0, prc, todo, cur, started, stopped, rs, r, closed, wg, pcCut,
                   pcFetch, pcDecode, r0, r1, atJoin, cutPre, mkvCalls, otrCalls, fs, extFail,
                   incrCL, incrCut>>
    /\ UNCHANGED <<hvars, dvars, xvars>>

\* cli.go lines 70-75 and 99-103: the command prints the error of read and
\* exits with status 1, or goes on: list prints the list, which changes
\* nothing, and ends; process goes on to process the list
CmdAfterRead ==
    /\ rpc = "done"
    /\ rpc' = IF readRet # Nil THEN "exit" ELSE "next"
    /\ UNCHANGED <<vl, doCleanUp, cmd, seen, nScan, removed, readErr, readRet, lastFile, rmFailed>>
    /\ UNCHANGED <<vl0, prc, todo, cur, started, stopped, rs, r, closed, wg, pcCut,
                   pcFetch, pcDecode, r0, r1, atJoin, cutPre, mkvCalls, otrCalls, fs, extFail,
                   incrCL, incrCut>>
    /\ UNCHANGED <<hvars, dvars, xvars>>

(***************************************************************************)
(* SpecRead: read on an empty video list                                   *)
(***************************************************************************)
InitRead ==
    /\ PrcIdle
    /\ HdrIdle
    /\ DetIdle
    /\ rpc = "patterns"
    /\ doCleanUp \in BOOLEAN
    /\ cmd \in {"list", "process"}
    /\ seen = {} /\ nScan = 0 /\ removed = {}
    /\ readErr = Nil /\ readRet = Nil
    /\ lastFile = <<>> /\ rmFailed = FALSE
    /\ XIdle

NextRead ==
    \/ ReadGlob
    \/ ReadFile
    \/ ReadReturn
    \/ CmdAfterRead

SpecRead == InitRead /\ [][NextRead]_vars

(***************************************************************************)
(* cutlist.go: the head of fetchCutlistHeaders: the request, reading the   *)
(* body and the token loop.  The XML decoder is strict: it yields the      *)
(* tokens of a well-nested document and an error at the first token that   *)
(* is not.  Names are as the loop compares them, in upper case; "OTHER"    *)
(* is any name that is not ID, RATING or CUTLIST.                          *)
(***************************************************************************)
clTagID == "ID"
clTagRating == "RATING"
clTagCutlist == "CUTLIST"

clRelNames == {clTagID, clTagRating}

ElementNames == {clTagID, clTagRating, clTagCutlist, "OTHER"}

\* the character data of the responses
CharDatas == {"5", "9"}

\* make(map[string]string); a key that is missing reads as ""
NewMap == [n \in clRelNames |-> ""]

\* the decoder can yield one more token
MoreToks == tpc = "token" /\ nTok < MaxToks

\* line 296: http.Get; with an error the empty ids is returned
TokGet ==
    /\ tpc = "get"
    /\ \E ok \in BOOLEAN :
         IF ok
         THEN tpc' = "read" /\ UNCHANGED tfail
         ELSE tpc' = "ret" /\ tfail' = "get"
    /\ UNCHANGED <<open, nTok, el, clRelVals, clh>>
    /\ UNCHANGED <<pvars, hvars, dvars, rvars, bvars, svars, qvars>>

\* lines 302-307: ioutil.ReadAll; with an error the empty ids is returned
TokRead ==
    /\ tpc = "read"
    /\ \E ok \in BOOLEAN :
         IF ok
         THEN tpc' = "token" /\ UNCHANGED tfail
         ELSE tpc' = "ret" /\ tfail' = "read"
    /\ UNCHANGED <<open, nTok, el, clRelVals, clh>>
    /\ UNCHANGED <<pvars, hvars, dvars, rvars, bvars, svars, qvars>>

\* lines 320-333: a start element
TokStart(n) ==
    /\ MoreToks
    /\ Len(open) < MaxDepth
    /\ open' = Append(open, n)
    /\ nTok' = nTok + 1
    /\ el' = IF n \in clRelNames THEN n ELSE el
    /\ clRelVals' = IF n = clTagCutlist THEN <<NewMap>> ELSE clRelVals
    /\ UNCHANGED <<tpc, clh, tfail, clhs>>
    /\ UNCHANGED <<pvars, clhs0, ids, sortImpl, hpc, dvars, rvars, bvars, svars, qvars>>

\* lines 334-349: the end element of the innermost open element; at the end
\* of a CUTLIST the header is filled from the map and appended if it has an id
TokEnd ==
    /\ MoreToks
    /\ open # <<>>
    /\ LET n == open[Len(open)]
           m == IF clRelVals = <<>> THEN NewMap ELSE clRelVals[1]
           h == [id |-> m[clTagID], score |-> ParseFloat(m[clTagRating])]
       IN  /\ open' = SubSeq(open, 1, Len(open) - 1)
           /\ el' = IF n = el THEN "" ELSE el
           /\ IF n = clTagCutlist
              THEN /\ clh' = h
                   /\ clhs' = IF h.id # "" THEN Append(clhs, h) ELSE clhs
              ELSE UNCHANGED <<clh, clhs>>
    /\ nTok' = nTok + 1
    /\ UNCHANGED <<tpc, clRelVals, tfail>>
    /\ UNCHANGED <<pvars, clhs0, ids, sortImpl, hpc, dvars, rvars, bvars, svars, qvars>>

\* lines 350-355: character data; inside a relevant element it is written
\* into the map, which panics if the map is not allocated
TokChars(c) ==
    /\ MoreToks
    /\ nTok' = nTok + 1
    /\ IF el = ""
       THEN UNCHANGED <<tpc, clRelVals>>
       ELSE IF clRelVals = <<>>
            THEN tpc' = "panic" /\ UNCHANGED clRelVals
            ELSE /\ clRelVals' = <<[clRelVals[1] EXCEPT ![el] = c]>>
                 /\ UNCHANGED tpc
    /\ UNCHANGED <<open, el, clh, tfail>>
    /\ UNCHANGED <<pvars, hvars, dvars, rvars, bvars, svars, qvars>>

\* lines 311-313: io.EOF after a complete document ends the loop
TokEOF ==
    /\ tpc = "token"
    /\ open = <<>>
    /\ tpc' = "eof"
    /\ hpc' = "sort"
    /\ clhs0' = clhs
    /\ UNCHANGED <<open, nTok, el, clRelVals, clh, tfail>>
    /\ UNCHANGED <<pvars, clhs, ids, sortImpl, dvars, rvars, bvars, svars, qvars>>

\* a token loop that returns the ids of the entries read before the error
TokErrPartial ==
    /\ tpc = "token"
    /\ tpc' = "eof"
    /\ hpc' = "sort"
    /\ clhs0' = clhs
    /\ tfail' = "token"
    /\ UNCHANGED <<open, nTok, el, clRelVals, clh>>
    /\ UNCHANGED <<pvars, clhs, ids, sortImpl, dvars, rvars, bvars, svars, qvars>>

\* lines 314-317: any other error of dec.Token(); the empty ids is returned
TokErr ==
    /\ tpc = "token"
    /\ tpc' = "ret"
    /\ tfail' = "token"
    /\ UNCHANGED <<open, nTok, el, clRelVals, clh>>
    /\ UNCHANGED <<pvars, hvars, dvars, rvars, bvars, svars, qvars>>

(***************************************************************************)
(* SpecTok: fetchCutlistHeaders from the request to the return             *)
(***************************************************************************)
InitTok ==
    /\ PrcIdle
    /\ DetIdle
    /\ ReadIdle
    /\ doCleanUp = FALSE
    /\ cmd = "process"
    /\ clhs = <<>> /\ clhs0 = <<>> /\ ids = <<>>
    /\ sortImpl \in SortImpls
    /\ hpc = "idle"
    /\ tpc = "get" /\ open = <<>> /\ nTok = 0 /\ el = ""
    /\ clRelVals = <<>> /\ clh = [id |-> "", score |-> 0] /\ tfail = Nil
    /\ BarIdle
    /\ SplitIdle
    /\ PrgIdle

NextTok ==
    \/ TokGet
    \/ TokRead
    \/ \E n \in ElementNames : TokStart(n)
    \/ TokEnd
    \/ \E c \in CharDatas : TokChars(c)
    \/ TokEOF
    \/ TokErr
    \/ HdrSort
    \/ HdrIds

SpecTok == InitTok /\ [][NextTok]_vars

(***************************************************************************)
(* video.go: getBar, called by goroutines that run at the same time: the   *)
(* stages through setPrgBar and the autoIncr goroutines.  The videos have  *)
(* been made by newVideo, so every v.pbs is an allocated, empty map, and   *)
(* start has made the progress container.                                  *)
(***************************************************************************)
OnlyBar == UNCHANGED <<pvars, hvars, dvars, rvars, tvars, svars, qvars, container>>

\* a goroutine calls v.getBar(act)
BarCall(g, k, act) ==
    /\ container # <<>>
    /\ gpc[g] = "idle"
    /\ nCalls < MaxBarCalls
    /\ nCalls' = nCalls + 1
    /\ garg' = [garg EXCEPT ![g] = <<k, act>>]
    /\ gbar' = [gbar EXCEPT ![g] = <<>>]
    /\ gpc' = [gpc EXCEPT ![g] = "lock"]
    /\ UNCHANGED <<pbs, prgLock, nBars, created, returned>>
    /\ OnlyBar

\* variant of BarLock: getBar goes on without waiting for prgLock
BarLockFree(g) ==
    /\ gpc[g] = "lock"
    /\ prgLock' = g
    /\ gpc' = [gpc EXCEPT ![g] = "read"]
    /\ UNCHANGED <<pbs, garg, gbar, nBars, nCalls, created, returned>>
    /\ OnlyBar

\* line 128: prgLock.Lock()
BarLock(g) ==
    /\ gpc[g] = "lock"
    /\ prgLock = 0
    /\ prgLock' = g
    /\ gpc' = [gpc EXCEPT ![g] = "read"]
    /\ UNCHANGED <<pbs, garg, gbar, nBars, nCalls, created, returned>>
    /\ OnlyBar

\* line 133: bar, ok = v.pbs[act]
BarRead(g) ==
    /\ gpc[g] = "read"
    /\ LET bar == pbs[garg[g][1]][garg[g][2]]
       IN  /\ gbar' = [gbar EXCEPT ![g] = bar]
           /\ gpc' = [gpc EXCEPT ![g] = IF bar = <<>> THEN "add" ELSE "ret"]
    /\ UNCHANGED <<pbs, prgLock, garg, nBars, nCalls, created, returned>>
    /\ OnlyBar

\* lines 135-143: bar = p.AddBar(...)
BarAdd(g) ==
    /\ gpc[g] = "add"
    /\ nBars' = nBars + 1
    /\ gbar' = [gbar EXCEPT ![g] = <<nBars + 1>>]
    /\ created' = [created EXCEPT ![garg[g][1]][garg[g][2]] = Append(@, nBars + 1)]
    /\ gpc' = [gpc EXCEPT ![g] = "write"]
    /\ UNCHANGED <<pbs, prgLock, garg, nCalls, returned>>
    /\ OnlyBar

\* line 146: v.pbs[act] = bar
BarWrite(g) ==
    /\ gpc[g] = "write"
    /\ pbs' = [pbs EXCEPT ![garg[g][1]][garg[g][2]] = gbar[g]]
    /\ gpc' = [gpc EXCEPT ![g] = "ret"]
    /\ UNCHANGED <<prgLock, garg, gbar, nBars, nCalls, created, returned>>
    /\ OnlyBar

\* lines 149 and 129: return bar, then the deferred prgLock.Unlock()
BarReturn(g) ==
    /\ gpc[g] = "ret"
    /\ returned' = [returned EXCEPT ![garg[g][1]][garg[g][2]] = @ \cup {<<g, gbar[g][1]>>}]
    /\ prgLock' = 0
    /\ gpc' = [gpc EXCEPT ![g] = "idle"]
    /\ UNCHANGED <<pbs, garg, gbar, nBars, nCalls, created>>
    /\ OnlyBar

InitBar ==
    /\ PrcIdle
    /\ HdrIdle
    /\ DetIdle
    /\ ReadIdle
    /\ doCleanUp = FALSE
    /\ cmd = "process"
    /\ TokIdle
    /\ SplitIdle
    /\ PrgIdle
    /\ container = <<"p">>
    /\ NoBars

NextBar ==
    \/ \E g \in Callers, k \in Keys, act \in Acts : BarCall(g, k, act)
    \/ \E g \in Callers : BarLock(g)
    \/ \E g \in Callers : BarRead(g)
    \/ \E g \in Callers : BarAdd(g)
    \/ \E g \in Callers : BarWrite(g)
    \/ \E g \in Callers : BarReturn(g)

SpecBar == InitBar /\ [][NextBar]_vars

(***************************************************************************)
(* cut.go: the split string of callMKVmerge, and timeStr.  A decimal       *)
(* string is the sequence of its digits; a formatted time is the record of *)
(* the fields of its format; the split string is its prefix and the        *)
(* sequence of its parts, each with the separator written before it.       *)
(***************************************************************************)
RECURSIVE Itoa(_)
\* strconv.Itoa, and strconv.FormatFloat before the point: the digits of n
Itoa(n) == IF n < 10 THEN <<n>> ELSE Append(Itoa(n \div 10), n % 10)

RECURSIVE AtoiDigits(_)
\* strconv.Atoi on a string of digits
AtoiDigits(ds) ==
    IF ds = <<>> THEN 0
    ELSE 10 * AtoiDigits(SubSeq(ds, 1, Len(ds) - 1)) + ds[Len(ds)]

\* line 180: strings.Split(strconv.FormatFloat(f, 'f', 6, 64), ".") for a
\* whole number f
FormatFloatSplit(f) == <<Itoa(f), <<0, 0, 0, 0, 0, 0>>>>

\* the verb %02d of fmt.Sprintf: at least two digits
Fmt02d(n) == IF n < 10 THEN <<0, n>> ELSE Itoa(n)

\* variant of timeStr: the hours are not taken off before the minutes
timeStrKeepsHours(f) ==
    LET a == FormatFloatSplit(f)
        i0 == AtoiDigits(a[1])
        hh == i0 \div 3600
        mm == i0 \div 60
        ss == i0 - mm * 60
    IN  [hh |-> Fmt02d(hh), mm |-> Fmt02d(mm), ss |-> Fmt02d(ss), frac |-> a[2]]

\* lines 178-198: timeStr
timeStr(f) ==
    LET a == FormatFloatSplit(f)
        i0 == AtoiDigits(a[1])
        hh == i0 \div 3600
        i1 == i0 - hh * 3600
        mm == i1 \div 60
        ss == i1 - mm * 60
    IN  [hh |-> Fmt02d(hh), mm |-> Fmt02d(mm), ss |-> Fmt02d(ss), frac |-> a[2]]

\* the segments a cutlist can hold: each has a time pair and a frame pair
\* that line 240 of cutlist.go lets pass
SplitSegs ==
    {Seg(t[1], t[2], f[1], f[2]) :
        t \in {<<0, 7>>, <<61, 3600>>}, f \in {<<0, 7>>, <<7, 3>>}}

SplitCutlists ==
    {[Cutlist(1, sgs) EXCEPT !.timeBased = TRUE, !.frameBased = fb] :
        sgs \in UNION {[1..n -> SplitSegs] : n \in 1..MaxSegs}, fb \in BOOLEAN}

OnlySplit == UNCHANGED <<pvars, hvars, dvars, rvars, tvars, bvars, qvars>>

\* lines 57-59 and 67-69: the prefix of the split string
SplitBegin ==
    /\ spc = "split"
    /\ splitStr' = [mode |-> IF scl[1].frameBased THEN "parts-frames:" ELSE "parts:",
                    parts |-> <<>>]
    /\ segI' = 0
    /\ spc' = "loop"
    /\ UNCHANGED <<scl, tArg, tRes>>
    /\ OnlySplit

\* lines 60-65 and 70-75: one segment is added to the split string
SplitSeg ==
    /\ spc = "loop"
    /\ segI < Len(scl[1].segs)
    /\ LET sg == scl[1].segs[segI + 1]
           sep == IF segI > 0 THEN ",+" ELSE ""
           part == IF scl[1].frameBased
                   THEN [sep |-> sep, from |-> Itoa(sg.frameStart), dash |-> "-",
                         to |-> Itoa(sg.frameStart + sg.frameDur)]
                   ELSE [sep |-> sep, from |-> timeStr(sg.timeStart), dash |-> "-",
                         to |-> timeStr(sg.timeStart + sg.timeDur)]
       IN  splitStr' = [splitStr EXCEPT !.parts = Append(@, part)]
    /\ segI' = segI + 1
    /\ UNCHANGED <<spc, scl, tArg, tRes>>
    /\ OnlySplit

\* lines 60 and 70: the loop over the segments is over
SplitEnd ==
    /\ spc = "loop"
    /\ segI >= Len(scl[1].segs)
    /\ spc' = "done"
    /\ UNCHANGED <<scl, splitStr, segI, tArg, tRes>>
    /\ OnlySplit

\* a call of timeStr
TimeStrCall ==
    /\ spc # "idle"
    /\ tRes = <<>>
    /\ tRes' = <<timeStr(tArg)>>
    /\ UNCHANGED <<spc, scl, splitStr, segI, tArg>>
    /\ OnlySplit

InitSplit ==
    /\ PrcIdle
    /\ HdrIdle
    /\ DetIdle
    /\ ReadIdle
    /\ doCleanUp = FALSE
    /\ cmd = "process"
    /\ TokIdle
    /\ BarIdle
    /\ PrgIdle
    /\ spc = "split"
    /\ scl \in {<<c>> : c \in SplitCutlists}
    /\ splitStr = [mode |-> "", parts |-> <<>>]
    /\ segI = 0
    /\ tArg \in 0..MaxSecs
    /\ tRes = <<>>

NextSplit ==
    \/ SplitBegin
    \/ SplitSeg
    \/ SplitEnd
    \/ TimeStrCall

SpecSplit == InitSplit /\ [][NextSplit]_vars

(***************************************************************************)
(* video.go: setPrgBar and autoIncr; cut.go and cutlist.go: the stages     *)
(* with an autoIncr goroutine; decode: the progress callOTRDecoder reads   *)
(* from the output of otrdecoder.  One bar is followed.  mpb is not part   *)
(* of the repository: whether bar.Incr lets the value pass the total 100   *)
(* is a choice made at the start.                                          *)
(***************************************************************************)
prgBarLen == 20

OnlyPrg == UNCHANGED <<pvars, hvars, dvars, rvars, tvars, bvars, svars, clamps, pAct>>

\* lines 265-271: bar.Incr(prg - int(bar.Current()))
AfterIncr(prg) ==
    LET c == barCur + (prg - barCur)
    IN  IF clamps /\ c >= 100 THEN 100 ELSE c

\* setPrgBar as part of a step
setPrgBar(prg) ==
    /\ barCur' = AfterIncr(prg)
    /\ setVals' = setVals \cup {prg}
    /\ lastSet' = <<prg>>

\* video.go lines 104-106: a tick: increase the progress bar
PrgTick ==
    /\ ipc = "select"
    /\ nTicks < MaxTicks
    /\ nTicks' = nTicks + 1
    /\ setPrgBar(barCur + 100 \div prgBarLen)
    /\ UNCHANGED <<ppc, ipc, phase, prgSet, nWords>>
    /\ OnlyPrg

\* cut.go line 120: mkvmerge has ended: set progress to 100%
PrgCutSet ==
    /\ pAct = prgActCut
    /\ ppc = "run"
    /\ ppc' = "set"
    /\ setPrgBar(100)
    /\ UNCHANGED <<ipc, nTicks, phase, prgSet, nWords>>
    /\ OnlyPrg

\* cut.go line 54, cutlist.go line 90: the stage returns and hands the stop
\* signal to autoIncr; callMKVmerge can return before line 120 with an error
PrgStop ==
    /\ pAct \in {prgActCL, prgActCut}
    /\ ppc \in {"run", "set"}
    /\ ipc = "select"
    /\ ipc' = "final"
    /\ ppc' = "done"
    /\ UNCHANGED <<barCur, nTicks, phase, prgSet, nWords, setVals, lastSet>>
    /\ OnlyPrg

\* video.go lines 107-114: the stop signal: set progress to 100%, return
PrgFinal ==
    /\ ipc = "final"
    /\ ipc' = "done"
    /\ setPrgBar(100)
    /\ UNCHANGED <<ppc, nTicks, phase, prgSet, nWords>>
    /\ OnlyPrg

\* the percentages otrdecoder prints
Percents == {0, 40, 100}

\* part_006 lines 82-85: the word names the next of the three passes of
\* otrdecoder: prg += 100
PrgDecPass ==
    /\ pAct = prgActDec
    /\ ppc = "run"
    /\ nWords < MaxWords
    /\ phase < 2
    /\ phase' = phase + 1
    /\ nWords' = nWords + 1
    /\ UNCHANGED <<ppc, ipc, barCur, nTicks, prgSet, setVals, lastSet>>
    /\ OnlyPrg

\* part_006 lines 86-92: the word is a percentage
PrgDecPercent(n) ==
    /\ pAct = prgActDec
    /\ ppc = "run"
    /\ nWords < MaxWords
    /\ nWords' = nWords + 1
    /\ LET prg == 100 * phase
       IN  IF (prg + n \div 3) - prgSet > 5 \/ prgSet = 0
           THEN /\ prgSet' = (prg + n) \div 3
                /\ setPrgBar((prg + n) \div 3)
           ELSE UNCHANGED <<prgSet, barCur, setVals, lastSet>>
    /\ UNCHANGED <<ppc, ipc, nTicks, phase>>
    /\ OnlyPrg

\* part_006 line 95: the output has ended
PrgDecEnd ==
    /\ pAct = prgActDec
    /\ ppc = "run"
    /\ ppc' = "done"
    /\ setPrgBar(100)
    /\ UNCHANGED <<ipc, nTicks, phase, prgSet, nWords>>
    /\ OnlyPrg

InitPrg ==
    /\ PrcIdle
    /\ HdrIdle
    /\ DetIdle
    /\ ReadIdle
    /\ doCleanUp = FALSE
    /\ cmd = "process"
    /\ TokIdle
    /\ BarIdle
    /\ SplitIdle
    /\ clamps \in BOOLEAN
    /\ pAct \in Acts
    /\ ppc = "run"
    /\ ipc = IF pAct = prgActDec THEN "none" ELSE "select"
    /\ barCur = 0 /\ nTicks = 0 /\ phase = 0 /\ prgSet = 0 /\ nWords = 0
    /\ setVals = {} /\ lastSet = <<>>

NextPrg ==
    \/ PrgTick
    \/ PrgCutSet
    \/ PrgStop
    \/ PrgFinal
    \/ PrgDecPass
    \/ \E n \in Percents : PrgDecPercent(n)
    \/ PrgDecEnd

SpecPrg == InitPrg /\ [][NextPrg]_vars

(***************************************************************************)
(* Properties of process (Spec)                                            *)
(***************************************************************************)
\* the apply stage of video k has started: cut called preProcessing or mkvmerge
ApplyStarted(k) == cutPre[k] > 0 \/ mkvCalls[k] > 0 \/ pcCut[k] = "mkvmerge"

\* the senders of the two items cut has received for video k
Senders(k) == {r0[k].src, r1[k].src}

\* C1: no apply-stage work (preProcessing, mkvmerge) of a video starts before
\* its cut goroutine has received exactly two items on the video's channel,
\* one from decode or the success indication of process and one from
\* fetchCutlist, both of that video.
C1_ApplyAfterBothSignals ==
    \A k \in Keys :
        ApplyStarted(k) =>
            /\ r0[k] # NoRes /\ r1[k] # NoRes
            /\ r0[k].key = k /\ r1[k].key = k
            /\ Senders(k) \in {{"decode", "fetchCutlist"}, {"process", "fetchCutlist"}}

C1_Witness ==
    \E k \in Keys : mkvCalls[k] > 0 /\ Senders(k) = {"decode", "fetchCutlist"}

\* C2: when one of the two items cut received carries an error, cut calls
\* neither preProcessing nor mkvmerge and status and path stay as they were
\* when the second item arrived.
C2_FailureSkipsApply ==
    \A k \in Keys :
        (atJoin[k] # <<>> /\ (r0[k].err \/ r1[k].err)) =>
            /\ cutPre[k] = 0 /\ mkvCalls[k] = 0
            /\ vl[k].status = atJoin[k][1].status
            /\ vl[k].filePath = atJoin[k][1].filePath

C2_Witness ==
    \E k \in Keys :
        /\ pcCut[k] = "done" /\ prc = "returned"
        /\ ~r0[k].err /\ r1[k].err

\* C3 (as claimed): when process has returned, every video for which decode
\* or fetchCutlist sent an error has the result FEHLER.
C3_FailureIsError ==
    \A k \in Keys :
        (prc = "returned" /\ (r0[k].err \/ r1[k].err)) => vl[k].res = vidResultErr

\* C4: a video that is already cut when process starts gets no goroutine, no
\* channel and no tool call, and is the same when process has returned.
C4_CutVideosUntouched ==
    \A k \in Keys :
        vl0[k].status = vidStatusCut =>
            /\ pcCut[k] = "none" /\ pcFetch[k] = "none" /\ pcDecode[k] = "none"
            /\ ~ChanMade(k)
            /\ cutPre[k] = 0 /\ mkvCalls[k] = 0 /\ otrCalls[k] = 0
            /\ vl[k] = vl0[k]

C4_Witness ==
    \E k \in Keys :
        vl0[k].status = vidStatusCut /\ prc = "returned" /\ stopped

(***************************************************************************)
(* Properties of fetchCutlistHeaders (SpecHdr)                             *)
(***************************************************************************)
\* score of the entry with id i (its position in the response)
ScoreOf(i) == clhs0[i].score

\* C5 (as claimed): the returned ids are ordered by descending score, and
\* ids with equal score are in response order.
C5_SortedStable ==
    hpc = "ret" =>
        /\ Len(ids) = Len(clhs0)
        /\ \A i, j \in 1..Len(ids) :
             i < j => \/ ScoreOf(ids[i]) > ScoreOf(ids[j])
                      \/ ScoreOf(ids[i]) = ScoreOf(ids[j]) /\ ids[i] < ids[j]

(***************************************************************************)
(* Properties of fetchCutlistDetails (SpecDet)                             *)
(***************************************************************************)
\* the iteration of the candidate that cl, doc and raws belong to is over
CandidateEnded ==
    /\ tried # <<>>
    /\ cl # <<>>
    /\ tried[Len(tried)].id = cl[1].id
    /\ dpc \in {"for", "ret", "done"}

\* the candidates that ended with at least one segment
Yielding == {j \in 1..Len(tried) : tried[j].segs >= 1}

\* C6: the candidates are tried strictly in the order of ids; the first one
\* that yields at least one segment is returned and no later candidate is
\* fetched; if no candidate yields a segment, nil is returned.
C6_FirstYieldingCandidate ==
    /\ Len(fetched) <= Len(ids)
    /\ \A j \in 1..Len(fetched) : fetched[j] = ids[j]
    /\ \A j \in 1..Len(tried) : tried[j].id = ids[j]
    /\ \A j \in Yielding : j = Len(tried) /\ Len(fetched) = j
    /\ dpc = "done" =>
         IF Yielding # {}
         THEN /\ result # <<>>
              /\ \A j \in Yielding :
                    /\ result[1].id = ids[j]
                    /\ Len(result[1].segs) = tried[j].segs
         ELSE /\ result = <<>>
              /\ fetched = ids

\* the first of several candidates was returned, the others were not fetched
C6_Witness ==
    /\ dpc = "done"
    /\ Len(ids) >= 2
    /\ result # <<>>
    /\ result[1].id = ids[1]
    /\ fetched = <<ids[1]>>

\* a pair of keys that is there and has a duration
Complete(from, dur) == from # Nil /\ dur # Nil /\ dur # "0"

\* a section with one complete pair and no key of the other pair
OnePair(sec) ==
    /\ sec.present
    /\ \/ /\ Complete(sec.start, sec.duration)
          /\ sec.startframe = Nil /\ sec.durationframes = Nil
       \/ /\ Complete(sec.startframe, sec.durationframes)
          /\ sec.start = Nil /\ sec.duration = Nil

\* C7: a segment with one complete pair (time only or frame only) is valid:
\* while every section read of a candidate has exactly one complete pair,
\* every one of them is kept as a segment of the candidate's cutlist.
C7_OnePairSuffices ==
    (/\ dpc \in {"cuts", "after"}
     /\ raws # <<>>
     /\ \A j \in 1..Len(raws) : OnePair(raws[j]))
    => Len(cl[1].segs) = Len(raws)

\* a section that is there and has none of the four keys
Neither(sec) ==
    /\ sec.present
    /\ sec.start = Nil /\ sec.duration = Nil
    /\ sec.startframe = Nil /\ sec.durationframes = Nil

\* C8: a candidate with a declared segment that has neither time nor frame
\* fields is rejected as a whole: it keeps no segment, is not retrieved, and
\* the selection goes on with the next candidate.
C8_NeitherRejectsCandidate ==
    (/\ CandidateEnded
     /\ doc.state = "ok"
     /\ \/ \E j \in 1..Len(raws) : Neither(raws[j])
        \/ unreadNeither)
    => /\ tried[Len(tried)].segs = 0
       /\ cl[1].segs = <<>>
       /\ ~clRetrieved
       /\ dpc = "done" => result = <<>>

\* a section with all four keys
Both(sec) ==
    /\ sec.present
    /\ sec.start # Nil /\ sec.duration # Nil
    /\ sec.startframe # Nil /\ sec.durationframes # Nil

\* a section with all four keys where both pairs have a duration
BothWithDuration(sec) ==
    /\ sec.present
    /\ Complete(sec.start, sec.duration)
    /\ Complete(sec.startframe, sec.durationframes)

\* the segment has the four values of the section
Retains(sg, sec) ==
    /\ ToString(sg.timeStart) = sec.start
    /\ ToString(sg.timeDur) = sec.duration
    /\ ToString(sg.frameStart) = sec.startframe
    /\ ToString(sg.frameDur) = sec.durationframes

SeenOf(k) == {f \in seen : ~analyzeFile(f).err /\ analyzeFile(f).key = k}

\* the statuses of the files visited so far for key k
SeenStatuses(k) == {analyzeFile(f).status : f \in SeenOf(k)}

\* C10: whatever files were visited in whatever order, the list holds an
\* item for exactly the keys of the files visited; the status of the item is
\* the most advanced status (ENC < DEC < CUT) of the files visited for its
\* key, and its path is one of those files, has that status and was not
\* removed.
C10_MergeKeepsMaxStatus ==
    \A k \in Keys :
        /\ k \in DOMAIN vl <=> SeenOf(k) # {}
        /\ k \in DOMAIN vl =>
             /\ vl[k].key = k
             /\ vl[k].status \in SeenStatuses(k)
             /\ \A st \in SeenStatuses(k) : StatusRank(st) <= StatusRank(vl[k].status)
             /\ vl[k].filePath \in SeenOf(k)
             /\ analyzeFile(vl[k].filePath).status = vl[k].status
             /\ vl[k].filePath \notin removed

\* files of all three statuses were visited for one key, the item is cut
C10_Witness ==
    /\ rpc = "done"
    /\ \E k \in DOMAIN vl :
         /\ SeenStatuses(k) = Statuses
         /\ vl[k].status = vidStatusCut

\* read has returned
ReadOver == rpc \in {"done", "exit", "next"}

\* C11: with clean up, of two files visited for one key with different
\* statuses the one of the less advanced status is removed (unless an
\* os.Remove failed) and the other one is kept, whatever the order of the
\* visits.
C11_LosingFileRemoved ==
    (ReadOver /\ doCleanUp /\ ~rmFailed) =>
        \A k \in Keys : \A f, g \in SeenOf(k) :
            StatusRank(analyzeFile(f).status) < StatusRank(analyzeFile(g).status)
            => f \in removed /\ vl[k].filePath \notin removed

\* the step visits file f, which has the status of the video of its key
VisitsEqual(f) ==
    /\ nScan' = nScan + 1
    /\ lastFile' = <<f>>
    /\ ~analyzeFile(f).err
    /\ analyzeFile(f).key \in DOMAIN vl
    /\ vl[analyzeFile(f).key].status = analyzeFile(f).status

\* C12 as stated: a file visited for a key whose video has the same status
\* replaces the path of the video; nothing is removed if it is the same path.
C12_LaterReplacesPath ==
    [][\A f \in ScanFiles :
         VisitsEqual(f) =>
            /\ vl'[analyzeFile(f).key].filePath = f
            /\ f = vl[analyzeFile(f).key].filePath => removed' = removed]_vars

\* C12 amended: a file visited for a key whose video has the same status
\* leaves the video as it is, with the path of the file visited earlier; if
\* it is the same path nothing is removed, otherwise the file visited is
\* removed if clean up is asked for (unless os.Remove fails) and no other.
C12_EarlierPathKept ==
    [][\A f \in ScanFiles :
         VisitsEqual(f) =>
            LET v == vl[analyzeFile(f).key]
            IN  /\ vl' = vl
                /\ removed' \subseteq removed \cup {f}
                /\ f = v.filePath => removed' = removed /\ rmFailed' = rmFailed
                /\ (f # v.filePath /\ doCleanUp) => f \in removed' \/ rmFailed'
                /\ ~doCleanUp => removed' = removed]_vars

\* a second file of the same status was visited after the one the video
\* points to, and was removed
C12_Witness ==
    /\ lastFile # <<>>
    /\ ~analyzeFile(lastFile[1]).err
    /\ analyzeFile(lastFile[1]).key \in DOMAIN vl
    /\ vl[analyzeFile(lastFile[1]).key].status = analyzeFile(lastFile[1]).status
    /\ vl[analyzeFile(lastFile[1]).key].filePath # lastFile[1]
    /\ lastFile[1] \in removed

\* C13: a file that is no OTR file is skipped and never makes the run fail:
\* the command does not exit with the error of such a file.
C13_NoOTRFileNonFatal == ~(rpc = "exit" /\ readRet = "noOTR")

(***************************************************************************)
(* Properties of the stages (Spec)                                         *)
(***************************************************************************)
\* process is past wg.Wait()
PastWait == prc \in {"close", "stop", "returned", "printed"}

\* C14: once process is past wg.Wait(), and so when it has returned and when
\* cmdPrc prints the list, every goroutine it started (decode, fetchCutlist,
\* cut) has finished.
C14_ReturnAfterAllStages ==
    PastWait =>
        \A k \in Keys :
            /\ pcCut[k] \in {"none", "done"}
            /\ pcFetch[k] \in {"none", "done"}
            /\ pcDecode[k] \in {"none", "done"}

C14_Witness ==
    /\ prc = "printed"
    /\ \E k \in Keys :
         pcCut[k] = "done" /\ pcFetch[k] = "done" /\ pcDecode[k] = "done"

(***************************************************************************)
(* SpecAll: the two parts of cmdPrc, read and process, each from its own   *)
(* initial states                                                          *)
(***************************************************************************)
InitAll == Init \/ InitRead

NextAll == Next \/ NextRead

SpecAll == InitAll /\ [][NextAll]_vars

\* a step of the decode or the cut goroutine of video k
StageStep(k) == pcDecode'[k] # pcDecode[k] \/ pcCut'[k] # pcCut[k]

\* C15: no step of read, decode or cut takes a video of the list away or
\* moves its status backwards along ENC -> DEC -> CUT, and a step of decode
\* or cut that changes the status moves it by exactly one level.
C15_StatusOnlyAdvances ==
    [][\A k \in DOMAIN vl :
         /\ k \in DOMAIN vl'
         /\ StatusRank(vl'[k].status) >= StatusRank(vl[k].status)
         /\ (StageStep(k) /\ vl'[k].status # vl[k].status) =>
                StatusRank(vl'[k].status) = StatusRank(vl[k].status) + 1]_vars

C15_Witness ==
    \E k \in Keys :
        /\ pcDecode[k] = "done"
        /\ vl0[k].status = vidStatusEnc
        /\ vl[k].status = vidStatusDec

\* the items decode has sent for video k, whether still in the channel or
\* received by cut
DecodeSent(k) ==
    {m \in {r[k][n] : n \in DOMAIN r[k]} \cup {r0[k], r1[k]} : m.src = "decode"}

\* C16 (as claimed): decode runs only for a video that was ENC; when it has
\* sent a success item the status is no longer ENC and the path is in the
\* Decoded (or Cut) directory; when it has sent an error item the result is
\* FEHLER and the status is still ENC.
C16_DecodeOutcome ==
    \A k \in Keys :
        /\ pcDecode[k] # "none" => vl0[k].status = vidStatusEnc
        /\ \A m \in DecodeSent(k) :
             IF m.err
             THEN vl[k].res = vidResultErr /\ vl[k].status = vidStatusEnc
             ELSE /\ vl[k].status # vidStatusEnc
                  /\ vl[k].filePath.dir \in {"dec", "cut"}

\* the items in the channel of video k and the ones cut has received
Signalled(k) ==
    {r[k][n] : n \in DOMAIN r[k]} \cup ({r0[k], r1[k]} \ {NoRes})

\* process has handled video k in its loop
Handled(k) == prc # "begin" /\ k \notin todo /\ cur # k

\* what C17 and its amended form share: a video that is DEC when process
\* starts never gets a decode goroutine or an otrdecoder call; process puts a
\* success item into its channel instead, so that once fetchCutlist has sent
\* its item both items cut waits for are there.
SyntheticSuccess(k) ==
    /\ pcDecode[k] = "none" /\ otrCalls[k] = 0
    /\ Handled(k) =>
         \E m \in Signalled(k) : m.src = "process" /\ ~m.err /\ m.key = k
    /\ (Handled(k) /\ pcFetch[k] = "done") =>
         {m.src : m \in Signalled(k)} = {"process", "fetchCutlist"}
    /\ atJoin[k] # <<>> => Senders(k) = {"process", "fetchCutlist"}

\* fetchCutlist of video k has sent a success item and cut has ended
AcquiredAndCutDone(k) ==
    /\ pcCut[k] = "done"
    /\ \E m \in {r0[k], r1[k]} : m.src = "fetchCutlist" /\ ~m.err

\* C17 (as claimed): for a video that is DEC when process starts the
\* success item of process stands in for decode, and with a success item of
\* fetchCutlist cut calls mkvmerge.
C17_DecodedGoesToCutTool ==
    \A k \in Keys :
        vl0[k].status = vidStatusDec =>
            /\ SyntheticSuccess(k)
            /\ AcquiredAndCutDone(k) => mkvCalls[k] = 1

\* C17 (amended): ... and with a success item of fetchCutlist cut calls
\* preProcessing, and mkvmerge unless the file is in the working dir and
\* cannot be moved into the Decoded directory.
C17_DecodedGoesToApply ==
    \A k \in Keys :
        vl0[k].status = vidStatusDec =>
            /\ SyntheticSuccess(k)
            /\ AcquiredAndCutDone(k) =>
                 /\ cutPre[k] = 1
                 /\ mkvCalls[k] \in {0, 1}
                 /\ vl0[k].filePath.dir = "dec" => mkvCalls[k] = 1
                 /\ mkvCalls[k] = 0 =>
                      /\ vl0[k].filePath.dir = "wrk"
                      /\ vl[k].filePath \notin fs
                      /\ extFail[k]

C17_Witness ==
    \E k \in Keys :
        /\ vl0[k].status = vidStatusDec
        /\ vl0[k].filePath.dir = "wrk"
        /\ AcquiredAndCutDone(k)
        /\ mkvCalls[k] = 1

\* a step of the fetchCutlist goroutine of video k
FetchStep(k) == pcFetch[k] \in {"headers", "details"} /\ pcFetch'[k] # pcFetch[k]

\* C18: a step of fetchCutlist changes no status, path or result and no
\* file; when it sends a success item the only change to the list is the
\* cutlist of its video, and when it sends an error item the list is as
\* before.
C18_AcquireOnlyAttaches ==
    [][\A k \in Keys :
         FetchStep(k) =>
            /\ \A j \in Keys :
                  /\ vl'[j].status = vl[j].status
                  /\ vl'[j].filePath = vl[j].filePath
                  /\ vl'[j].res = vl[j].res
                  /\ j # k => vl'[j] = vl[j]
            /\ fs' = fs
            /\ r'[k] # r[k] =>
                  LET m == r'[k][Len(r'[k])]
                  IN  /\ r'[k] = Append(r[k], m)
                      /\ m.src = "fetchCutlist"
                      /\ IF m.err
                         THEN vl' = vl
                         ELSE vl'[k].cl # <<>>]_vars

C18_Witness ==
    \E k \in Keys :
        /\ pcFetch[k] = "done"
        /\ vl[k].cl # <<>>
        /\ \E m \in Signalled(k) : m.src = "fetchCutlist" /\ ~m.err

\* cut of video k has received two success items and is past the test of
\* their errors
BothSucceeded(k) ==
    /\ atJoin[k] # <<>>
    /\ ~r0[k].err /\ ~r1[k].err
    /\ pcCut[k] \in {"mkvmerge", "done"}

\* what the end of cut leaves after mkvmerge was called: mkvmerge has
\* written its output file exactly if it returned no error
AfterCutTool(k) ==
    IF CutFile(vl[k]) \in fs
    THEN vl[k].status = vidStatusCut /\ vl[k].res = vidResultOK
    ELSE vl[k].status = vidStatusDec /\ vl[k].res = vidResultErr

\* C19 (as claimed): when both items cut received are successes, cut calls
\* mkvmerge; if mkvmerge succeeds the video ends with status CUT and result
\* OK, if it fails with result FEHLER and status DEC.
C19_BothSuccessesCut ==
    \A k \in Keys :
        BothSucceeded(k) =>
            /\ mkvCalls[k] = 1
            /\ pcCut[k] = "done" => AfterCutTool(k)

\* C19 (amended): when both items are successes, cut calls preProcessing;
\* if that succeeds it calls mkvmerge, with the outcomes above; if it fails
\* mkvmerge is not called and status and result stay as they were.
C19_BothSuccessesApply ==
    \A k \in Keys :
        BothSucceeded(k) =>
            /\ cutPre[k] = 1
            /\ mkvCalls[k] \in {0, 1}
            /\ (mkvCalls[k] = 1 /\ pcCut[k] = "done") => AfterCutTool(k)
            /\ mkvCalls[k] = 0 =>
                 /\ pcCut[k] = "done"
                 /\ extFail[k]
                 /\ vl[k].filePath \notin fs
                 /\ vl[k].status = atJoin[k][1].status
                 /\ vl[k].res = vl0[k].res

C19_Witness ==
    \E k \in Keys :
        /\ BothSucceeded(k)
        /\ pcCut[k] = "done"
        /\ mkvCalls[k] = 1
        /\ vl[k].status = vidStatusCut /\ vl[k].res = vidResultOK

\* both outcomes of mkvmerge happen
C19_WitnessToolFails ==
    \E k \in Keys :
        /\ BothSucceeded(k)
        /\ pcCut[k] = "done"
        /\ vl[k].filePath \in fs
        /\ vl[k].status = vidStatusDec /\ vl[k].res = vidResultErr

\* C20 (as claimed): a video that is ENC when process starts, for which
\* fetchCutlist has attached the well-formed cutlist and for which no tool
\* failed on a file that was there and no os.Rename or os.Remove failed, has
\* status CUT and result OK when cmdPrc prints the list.
C20_RawEndsCut ==
    \A k \in Keys :
        ( /\ prc = "printed"
          /\ vl0[k].status = vidStatusEnc
          /\ vl[k].cl # <<>>
          /\ ~extFail[k] ) =>
            /\ vl[k].cl[1] \in FetchedCutlists
            /\ vl[k].status = vidStatusCut
            /\ vl[k].res = vidResultOK

(***************************************************************************)
(* Properties of the head of fetchCutlistHeaders (SpecTok)                 *)
(***************************************************************************)
\* C21: when the request fails, the body cannot be read or dec.Token()
\* returns an error other than io.EOF, whatever was decoded before,
\* fetchCutlistHeaders returns at once and what it returns is the empty id
\* list: the headers read so far are neither sorted nor copied into ids.
C21_FailureGivesEmptyList ==
    tfail # Nil =>
        /\ tpc = "ret"
        /\ hpc = "idle"
        /\ ids = <<>>

C21_Witness ==
    /\ tfail = "token"
    /\ tpc = "ret"
    /\ Len(clhs) >= 1
    /\ ids = <<>>

(***************************************************************************)
(* SpecLive: Spec with the scheduler running some goroutine that can take  *)
(* a step, every tool call and every request returning                     *)
(***************************************************************************)
SpecLive == Spec /\ WF_vars(Next)

LoopSteps == PrcBegin \/ (\E k \in Keys : PrcSpawn(k)) \/ PrcBranch

StageSteps(k) ==
    \/ CutRecv0(k) \/ CutRecv1(k) \/ CutJoin(k) \/ CutFinish(k)
    \/ FetchHeaders(k) \/ FetchDetails(k)
    \/ DecodePre(k) \/ DecodeFinish(k)

SpecIndep == Spec /\ WF_vars(LoopSteps) /\ WF_vars(StageSteps(2))

PcRank(pc) ==
    CASE pc = "none" -> 0
      [] pc \in {"recv0", "headers", "pre"} -> 1
      [] pc \in {"recv1", "details", "otrdecoder"} -> 2
      [] pc = "join" -> 3
      [] pc = "mkvmerge" -> 4
      [] pc = "done" -> 5

\* C23: in one run otrdecoder and mkvmerge are called at most once for a
\* video, whatever they return, and no goroutine of a video starts again or
\* goes back: decode, fetchCutlist and cut each run through once at most.
C23_NoRetry ==
    [][\A k \in Keys :
         /\ otrCalls'[k] <= 1 /\ mkvCalls'[k] <= 1 /\ cutPre'[k] <= 1
         /\ PcRank(pcDecode'[k]) >= PcRank(pcDecode[k])
         /\ PcRank(pcFetch'[k]) >= PcRank(pcFetch[k])
         /\ PcRank(pcCut'[k]) >= PcRank(pcCut[k])
         /\ k \in todo' => k \in todo \/ prc = "begin"]_vars

\* both tools were called for one video and failed, and process has returned
C23_Witness ==
    /\ prc = "returned"
    /\ \E k \in Keys :
         /\ otrCalls[k] = 1 /\ pcDecode[k] = "done" /\ vl[k].status = vidStatusEnc
         /\ vl[k].res = vidResultErr
    /\ \E k \in Keys :
         /\ mkvCalls[k] = 1 /\ pcCut[k] = "done" /\ vl[k].status = vidStatusDec
         /\ vl[k].res = vidResultErr

\* number of items sent on the channel of video k so far
NumSent(k) ==
    Len(r[k]) + (IF r0[k] = NoRes THEN 0 ELSE 1) + (IF r1[k] = NoRes THEN 0 ELSE 1)

\* a goroutine is at a send on the channel of video k
AtSend(k) ==
    \/ pcFetch[k] \in {"headers", "details"}
    \/ pcDecode[k] \in {"pre", "otrdecoder"}
    \/ prc = "branch" /\ cur = k /\ vl[k].status # vidStatusEnc

\* C29: the channel of a video never holds more than ChanCap = 2 items and
\* never gets more than two; whenever decode, fetchCutlist or process is at
\* a send there is room for the item; and when every goroutine has ended
\* exactly two items were sent, one by decode or process and one by
\* fetchCutlist.
C29_TwoSignalsNoBlocking ==
    \A k \in Keys :
        /\ Len(r[k]) <= ChanCap
        /\ NumSent(k) <= 2
        /\ AtSend(k) => CanSend(k)
        /\ pcDecode[k] = "done" => \E m \in Signalled(k) : m.src = "decode"
        /\ pcFetch[k] = "done" => \E m \in Signalled(k) : m.src = "fetchCutlist"
        /\ (PastWait /\ ChanMade(k)) =>
              /\ NumSent(k) = 2
              /\ Senders(k) \in {{"decode", "fetchCutlist"}, {"process", "fetchCutlist"}}

C29_Witness ==
    /\ prc = "returned"
    /\ \E k \in Keys :
         /\ Senders(k) = {"decode", "fetchCutlist"}
         /\ r0[k].err /\ r1[k].err
         /\ otrCalls[k] = 0

\* the step decode is about to take assigns v.filePath: preProcessing when
\* the file is not in the sub directory of its status, postProcessing when
\* otrdecoder can return without error
DecodeWritesPath(k) ==
    \/ pcDecode[k] = "pre" /\ vl[k].filePath.dir # DirOf(vl[k].status)
    \/ pcDecode[k] = "otrdecoder" /\ CanSend(k) /\ FALSE \in ToolErrors(vl[k])

\* the step fetchCutlist is about to take reads v.filePath for the URL
FetchReadsPath(k) == pcFetch[k] = "headers"

\* cut is past its two receives and works on status, path and cutlist
CutTouches(k) == pcCut[k] \in {"join", "mkvmerge"}

\* C30 (as claimed): no field of a video is written by one stage while
\* another stage of the same video reads or writes it: fetchCutlist is never
\* about to read the path while decode is about to write it, and cut works
\* on status, path and cutlist only when it has both items and decode and
\* fetchCutlist have ended.
C30_NoConcurrentAccess ==
    \A k \in Keys :
        /\ ~(FetchReadsPath(k) /\ DecodeWritesPath(k))
        /\ CutTouches(k) =>
              /\ r0[k] # NoRes /\ r1[k] # NoRes
              /\ pcDecode[k] \in {"none", "done"}
              /\ pcFetch[k] = "done"

\* the part of C30 about cut alone
CutAfterBothSignals ==
    \A k \in Keys :
        CutTouches(k) =>
            /\ r0[k] # NoRes /\ r1[k] # NoRes
            /\ pcDecode[k] \in {"none", "done"}
            /\ pcFetch[k] = "done"

\* C24 (as claimed): the list command invokes no tool, runs no stage of the
\* pipeline and deletes no file that it scans.
C24_ListReadOnly ==
    cmd = "list" =>
        /\ prc = "idle"
        /\ \A k \in Keys :
             /\ otrCalls[k] = 0 /\ mkvCalls[k] = 0
             /\ pcDecode[k] = "none" /\ pcFetch[k] = "none" /\ pcCut[k] = "none"
        /\ removed = {}

\* the part of C24 about tools and stages alone
ListRunsNoStage ==
    cmd = "list" =>
        /\ prc = "idle"
        /\ \A k \in Keys :
             /\ otrCalls[k] = 0 /\ mkvCalls[k] = 0
             /\ pcDecode[k] = "none" /\ pcFetch[k] = "none" /\ pcCut[k] = "none"

\* process on a list, or fetchCutlistDetails on a list of candidates
SpecCutlist == (Init \/ InitDet) /\ [][Next \/ NextDet]_vars

\* C25: while mkvmerge runs for a video the video is decoded and holds a
\* cutlist with at least one segment; the cutlist of a video is absent or
\* has at least one segment; and what fetchCutlistDetails returns, which is
\* what fetchCutlist attaches, is nil or has at least one segment.
C25_CutNeedsSegments ==
    /\ \A k \in DOMAIN vl :
         /\ pcCut[k] = "mkvmerge" =>
               /\ vl[k].status = vidStatusDec
               /\ vl[k].cl # <<>>
               /\ Len(vl[k].cl[1].segs) >= 1
         /\ vl[k].cl # <<>> => Len(vl[k].cl[1].segs) >= 1
    /\ result # <<>> => Len(result[1].segs) >= 1
    /\ (dpc \in {"ret", "done"} /\ clRetrieved) => Len(cl[1].segs) >= 1

C25_Witness ==
    \E k \in DOMAIN vl :
        /\ pcCut[k] = "mkvmerge"
        /\ mkvCalls[k] = 1
        /\ vl0[k].status = vidStatusEnc
        /\ vl[k].status = vidStatusDec
        /\ vl[k].cl # <<>>

\* the step fetches the document of the next candidate
FetchesDoc == Len(fetched') = Len(fetched) + 1

\* C26: when the document of a candidate cannot be fetched, read or opened,
\* or has no general section or no number of cuts, fetchCutlistDetails
\* goes on with the next candidate and nothing is retrieved by that step;
\* a document with general section and number of cuts goes on to its cuts
\* whether or not it has ratio, fps and application.
C26_BadCandidateSkipped ==
    [][FetchesDoc =>
         IF doc'.state # "ok" \/ doc'.noofcuts = Nil
         THEN /\ dpc' = "for"
              /\ idx' = idx + 1
              /\ clRetrieved' = FALSE
              /\ result' = <<>>
         ELSE /\ dpc' = "cuts"
              /\ idx' = idx]_vars

C26_Witness ==
    /\ dpc = "done"
    /\ fetched = <<1, 2>>
    /\ tried[1].id = 1 /\ tried[1].segs = 0
    /\ result # <<>>
    /\ result[1].id = 2
    /\ result[1].ratio = "" /\ result[1].fps = 0 /\ result[1].app = ""
    /\ doc.ratio = Nil /\ doc.fps = Nil /\ doc.app = Nil

\* C27: for every video and action at most one bar is ever added, whatever
\* the order of the steps of the goroutines in getBar, and every call
\* returns that bar.
C27_OneBarPerPair ==
    \A k \in Keys, act \in Acts :
        /\ Len(created[k][act]) <= 1
        /\ \A x \in returned[k][act] :
             /\ created[k][act] # <<>>
             /\ x[2] = created[k][act][1]

C27_Witness ==
    \E k \in Keys, act \in Acts, g1, g2 \in Callers :
        /\ g1 # g2
        /\ Len(created[k][act]) = 1
        /\ <<g1, created[k][act][1]>> \in returned[k][act]
        /\ <<g2, created[k][act][1]>> \in returned[k][act]
        /\ nBars >= 2
        /\ \E g3 \in Callers : gpc[g3] = "lock" /\ garg[g3] = <<k, act>> /\ prgLock # 0

\* C33 (as claimed): a cutlist that fetchCutlistDetails returns has as many
\* segments as its document declares in noofcuts.
C33_SegmentsAsDeclared ==
    (dpc = "done" /\ result # <<>>) => Len(result[1].segs) = numCuts

\* C34 (as claimed): fetchCutlistHeaders does not panic on a response the
\* decoder accepts: character data of an ID or RATING element is never
\* written into a value map that is not allocated.
C34_NoNilMapWrite == tpc # "panic"

\* fetchCutlistHeaders from the request on, or fetchCutlistDetails on a list
\* of candidates
SpecFetch == (InitTok \/ InitDet) /\ [][NextTok \/ NextDet]_vars

\* the cutlist that the document doc and the cut sections secs of candidate
\* id give, when the first n sections are kept as segments
OwnData(id, d, secs, n) ==
    [id |-> id,
     app |-> IF d.app # Nil THEN d.app ELSE "",
     ratio |-> IF d.ratio # Nil THEN d.ratio ELSE "",
     fps |-> IF d.fps # Nil THEN ParseFloat(d.fps) ELSE 0,
     timeBased |-> \E j \in 1..Len(secs) : secs[j].present /\ HasKey(secs[j], "start"),
     frameBased |-> \E j \in 1..Len(secs) : secs[j].present /\ HasKey(secs[j], "startframe"),
     segs |-> [j \in 1..n |-> ParseSeg(secs[j])]]

\* C35: the cutlist that fetchCutlistDetails returns is the one of the
\* candidate fetched last, made of the document and the cut sections of
\* that candidate alone; and neither the header list nor the list of ids
\* that fetchCutlistHeaders builds has an entry with an empty id.
C35_OnlyAcceptedCandidate ==
    /\ (dpc = "done" /\ result # <<>>) =>
          /\ fetched # <<>>
          /\ result[1] = OwnData(fetched[Len(fetched)], doc, raws, Len(result[1].segs))
    /\ tpc # "idle" =>
          /\ \A j \in 1..Len(clhs) : clhs[j].id # ""
          /\ \A j \in 1..Len(ids) : ids[j] # ""

C35_Witness ==
    /\ dpc = "done"
    /\ result # <<>>
    /\ result[1].id = 2
    /\ result[1].ratio = "" /\ result[1].app = "" /\ result[1].fps = 0
    /\ Len(tried) = 2
    /\ tried[1].id = 1
    /\ tried[1].cl.ratio = "16:9" /\ tried[1].cl.app = "Avidemux"
    /\ tried[1].cl.timeBased

\* the whole seconds a formatted time stands for
SecsOf(t) == AtoiDigits(t.hh) * 3600 + AtoiDigits(t.mm) * 60 + AtoiDigits(t.ss)

\* t has the form HH:MM:SS.000000
WellFormedTime(t) ==
    /\ Len(t.hh) = 2 /\ Len(t.mm) = 2 /\ Len(t.ss) = 2
    /\ AtoiDigits(t.mm) < 60 /\ AtoiDigits(t.ss) < 60
    /\ t.frac = <<0, 0, 0, 0, 0, 0>>

\* C37: the parts of the split string written so far are the first
\* segments of the cutlist in their order, each from its start to its start
\* plus its duration, in frames and with the prefix for frames if the
\* cutlist is frame based and in well-formed times otherwise; and timeStr of
\* a whole number of seconds is a well-formed time that stands for that
\* number.
C37_SplitStringAndTimeStr ==
    /\ spc \in {"loop", "done"} =>
          /\ Len(splitStr.parts) = segI
          /\ spc = "done" => segI = Len(scl[1].segs)
          /\ splitStr.mode = IF scl[1].frameBased THEN "parts-frames:" ELSE "parts:"
          /\ \A j \in 1..Len(splitStr.parts) :
               LET part == splitStr.parts[j]
                   sg == scl[1].segs[j]
               IN  /\ part.sep = IF j = 1 THEN "" ELSE ",+"
                   /\ part.dash = "-"
                   /\ IF scl[1].frameBased
                      THEN /\ AtoiDigits(part.from) = sg.frameStart
                           /\ AtoiDigits(part.to) = sg.frameStart + sg.frameDur
                      ELSE /\ WellFormedTime(part.from) /\ WellFormedTime(part.to)
                           /\ SecsOf(part.from) = sg.timeStart
                           /\ SecsOf(part.to) = sg.timeStart + sg.timeDur
    /\ tRes # <<>> => WellFormedTime(tRes[1]) /\ SecsOf(tRes[1]) = tArg

C37_Witness ==
    /\ spc = "done"
    /\ ~scl[1].frameBased
    /\ Len(splitStr.parts) = 2
    /\ SecsOf(splitStr.parts[2].to) = 3661
    /\ tRes # <<>>
    /\ tArg = 3661

\* C31 (as claimed): when process has called stop, every autoIncr goroutine
\* that fetchCutlist or callMKVmerge started has made its final update and
\* returned.
C31_NoUpdateAfterStop ==
    stopped => \A k \in Keys : /\ incrCL[k] \in {"none", "done"}
                               /\ incrCut[k] \in {"none", "done"}

\* the number of the goroutines cut, fetchCutlist and decode that have been
\* started and have not yet called wg.Done()
Running ==
    Cardinality({k \in Keys : pcCut[k] \notin {"none", "done"}})
    + Cardinality({k \in Keys : pcFetch[k] \notin {"none", "done"}})
    + Cardinality({k \in Keys : pcDecode[k] \notin {"none", "done"}})

\* C32: no goroutine is at a send on a channel that is closed; a channel is
\* closed only when process is past wg.Wait(); and the counter of the
\* WaitGroup is the number of the started goroutines that have not called
\* Done, so it is never negative.
C32_NoSendOnClosed ==
    /\ \A k \in Keys :
         /\ AtSend(k) => ~closed[k]
         /\ closed[k] => PastWait
    /\ wg = Running
    /\ wg >= 0

C32_Witness ==
    /\ closed[1] /\ closed[2]
    /\ wg = 0
    /\ Senders(1) = {"decode", "fetchCutlist"}
    /\ Senders(2) = {"process", "fetchCutlist"}

\* the stage of the bar and its autoIncr goroutine have ended
PrgOver == ppc = "done" /\ ipc \in {"none", "done"}

\* C36 (as claimed): every value setPrgBar is called with lies in 0..100,
\* and when the stage has ended the last value is 100, however many ticks
\* autoIncr has taken.
C36_ProgressInRange ==
    /\ setVals \subseteq 0..100
    /\ PrgOver => lastSet = <<100>>

\* the part of C36 about the last value
LastValueIs100 == PrgOver => lastSet = <<100>>

\* the part of C36 about decode
DecodeInRange == pAct = prgActDec => setVals \subseteq 0..100

============================================================================
